---- MODULE Spec2Model ----
(***************************************************************************)
(* Harvest platform: the harvest engine (core/engine.py), the validation   *)
(* of leads (core/base_scraper.py) and the SQLite storage it persists to   *)
(* (core/db.py).                                                           *)
(*                                                                         *)
(* A run of HarvestEngine.run_scraper is split at its storage operations:  *)
(* every DatabaseManager method opens its own connection and commits on    *)
(* exit (db.py get_connection), so each of them is one atomic step, and    *)
(* the engine's own computation between two of them belongs to the step    *)
(* that follows the earlier one.                                           *)
(*                                                                         *)
(* Python values: None is the string "None"; a lead is a mapping whose     *)
(* keys are all present (both adapters build every key, registry.py 29-38) *)
(* and whose values are None or a string.  An optional integer (max_leads) *)
(* is <<>> for None and <<n>> for n.                                       *)
(***************************************************************************)
EXTENDS Integers, Sequences, FiniteSets, TLC

VARIABLES
    sources,    \* table sources: set of rows [id, source_type, enabled]
    leads,      \* table leads: set of rows (id is the AUTOINCREMENT key)
    leadSeq,    \* last id handed out for table leads
    logs,       \* table scraper_logs: set of rows
    logSeq,     \* last id handed out for table scraper_logs
    site,       \* per source: what the adapter's stream produces
    run,        \* per thread: the frame of its run_scraper call
    started,    \* per thread: number of run_scraper calls it made so far
    yielded,    \* number of items the nondeterministic adapters yielded so far
    dbFaults,   \* storage failures the environment may still inject
    jobs,       \* HarvestScheduler.jobs: job id -> bookkeeping entry
    triggers,   \* HarvestScheduler.scheduler.jobs: the jobs of the schedule library
    jobSeq,     \* number of schedule jobs created so far (their identities)
    running,    \* HarvestScheduler.running
    loop,       \* the thread self.thread runs _run_loop in: its position
    left,       \* a thread of _run_loop that a stop() left alive
    lastCall,   \* the last call of add_*_job / remove_job that returned
    dues,       \* number of times a schedule job became due so far
    pro,        \* a YellowPagesProScraper instance and its ProxyManager
    fetch,      \* an ExampleDirectScraper instance inside scrape
    seed        \* init_db.py: the seeding command's position and counts

engineVars == <<sources, leads, leadSeq, logs, logSeq, site, run, started, yielded, dbFaults>>

schedVars == <<jobs, triggers, jobSeq, running, loop, left, lastCall, dues>>

adapterVars == <<pro, fetch>>

cliVars == <<seed>>

vars == <<sources, leads, leadSeq, logs, logSeq, site, run, started, yielded, dbFaults,
          jobs, triggers, jobSeq, running, loop, left, lastCall, dues, pro, fetch, seed>>

----------------------------------------------------------------------------
(* Bounds of the model *)

\* run_scraper calls a thread makes in one behaviour
MaxRuns == 1
\* runs of the seeding command in one behaviour
MaxSeeds == 2
\* items yielded by the nondeterministic adapters in one behaviour
MaxItems == 3
\* storage failures injected in one behaviour (specification SpecFault)
MaxFaults == 1
\* schedule jobs created in one behaviour (calls of add_*_job)
MaxJobs == 2
\* times a schedule job becomes due in one behaviour
MaxDue == 2

----------------------------------------------------------------------------
(* Values *)

None == "None"

\* Python truthiness of an Optional[str]
Truthy(v) == v # None /\ v # ""

\* The thread that serves the pages of app.py, and the daemon thread that
\* HarvestScheduler.start creates
Foreground == {"main"}
Threads == Foreground \cup {"sched", "left"}

SourceIds == {1, 2}

\* engine.py 100-101
buffer_size == 50

\* engine.scraper_registry after _discover_scrapers: the SOURCE_TYPE of the
\* two adapter classes under scrapers/
scraper_registry == {"example_direct", "yellowpages_pro"}

Lead(n, c, p, e, w) ==
    [business_name |-> n, city |-> c, phone |-> p, email |-> e, website |-> w]

\* The raw leads the nondeterministic adapters choose from: the three leads
\* of the duplicate scenario (name A with phone 1 and no city, name B with
\* an email only), a lead with a complete natural key, and one invalid lead
\* of each kind (name None, name empty with every contact, no contact).
LeadPool ==
    { Lead("A", None, "1", None, None),
      Lead("B", None, None, "b@x.com", None),
      Lead("A", "X", "1", None, None),
      Lead(None, "X", "1", None, None),
      Lead("", "X", "1", "b@x.com", "w"),
      Lead("A", "X", None, None, None) }

\* The i-th lead (from 0) of a stream of valid, pairwise distinct leads
FreshLead(i) == Lead("N" \o ToString(i), "X", "1", None, None)

\* What one next() of a generator does besides yielding a lead
END == [stop |-> "StopIteration"]
RAISE == [stop |-> "Exception"]

\* A listing element, as what its selectors find: None for no such element,
\* else the text of the element found
Element(n, p, e, w, c) ==
    [business_name |-> n, phone |-> p, email |-> e, website |-> w, city |-> c]

\* ExampleDirectScraper.parse_lead: <<>> for None, else the lead.  The dict
\* is built whatever _extract_text and _extract_attr return
parse_lead(element) ==
    <<Lead(element.business_name, element.city, element.phone,
           element.email, element.website)>>

\* A dict in a condition: true when it has a key
DictTruthy(lead) == DOMAIN lead # {}

\* ExampleDirectScraper.scrape 20-24: the leads the listings of the page
\* give, in order
RECURSIVE DirectLeads(_)
DirectLeads(listings) ==
    IF listings = <<>> THEN <<>>
    ELSE LET lead == parse_lead(Head(listings))
         IN  (IF lead # <<>> /\ DictTruthy(lead[1]) THEN lead ELSE <<>>)
                 \o DirectLeads(Tail(listings))

\* What a generator can do at its pos-th next(): yield a lead, finish, raise.
\* kind "any": any finite stream over LeadPool.  kind "fresh": n fresh leads,
\* then the given ending.  kind "pro": what the YellowPagesProScraper
\* instance has reached (nothing while it is still inside a request).
StreamItems(script, pos) ==
    IF script.kind = "any"
    THEN (IF yielded < MaxItems THEN LeadPool ELSE {}) \cup {END, RAISE}
    ELSE IF script.kind = "pro"
    THEN (IF pro.pc = "ended" THEN {END}
          ELSE IF pro.pc = "raised" THEN {RAISE}
          ELSE IF pro.pc = "yield" THEN {Head(pro.out)}
          ELSE {})
    ELSE IF script.kind = "direct"
    THEN (IF pos < Len(DirectLeads(script.listings))
          THEN {DirectLeads(script.listings)[pos + 1]} ELSE {END})
    ELSE IF pos < script.n THEN {FreshLead(pos)} ELSE {script.ending}

IsLead(item) == item \notin {END, RAISE}

\* range(1, 6) of YellowPagesProScraper.scrape
LastPage == 5

\* The page loop with one page more
AfterPageOneMore(R) ==
    IF R.page = LastPage + 1
    THEN [R EXCEPT !.pc = "ended"]
    ELSE [R EXCEPT !.pc = "request", !.page = @ + 1, !.attempt = 1,
                   !.response = "pending", !.found = <<>>, !.hist = <<>>]

\* scrape 73-74 and 54: after the last listing of a page
AfterPage(R) ==
    IF R.page = LastPage
    THEN [R EXCEPT !.pc = "ended"]
    ELSE [R EXCEPT !.pc = "request", !.page = @ + 1, !.attempt = 1,
                   !.response = "pending", !.found = <<>>, !.hist = <<>>]

\* The generator resumed after a yield: on to the next lead of the page
Resumed(R) ==
    LET G == [R EXCEPT !.out = Tail(@)]
    IN  IF G.out = <<>> THEN AfterPage(G) ELSE G

AnySite == [kind |-> "any", n |-> 0, ending |-> END]

----------------------------------------------------------------------------
(* core/base_scraper.py *)

\* validate_lead without its second test: a name is enough
validate_lead_name_only(lead) == Truthy(lead.business_name)

\* BaseScraper.validate_lead
validate_lead(lead) ==
    /\ Truthy(lead.business_name)
    /\ \E k \in {"phone", "email", "website"} : Truthy(lead[k])

\* _create_session 37-42: Retry(total=3, status_forcelist=[...])
RetryTotal == 3
status_forcelist == {"429", "500", "502", "503", "504"}

\* What one attempt of session.request meets: a status code, or a failure
\* of the connection
Answers == {"200", "404", "429", "503", "connection error"}

\* urllib3 Retry: what is retried, and the test made after total was
\* decremented for the failed attempt
is_retry(answer) == answer = "connection error" \/ answer \in status_forcelist

is_exhausted(total) == total < 0

\* ExampleDirectScraper.__init__ and scrape at line 13.  pc: request
\* (inside _make_request), parse (a response was returned), yield
\* (suspended at line 24), ended.  total: the retries the Retry object of
\* the request still has.  attempts and pages count the attempts made and
\* the pages parsed.
NewDirect ==
    [pc |-> "request", total |-> RetryTotal, attempts |-> 0, pages |-> 0,
     response |-> "pending", out |-> <<>>]

\* _make_request 78-80 and scrape 15-16: None is returned and scrape returns
FetchFailed(R) == [R EXCEPT !.response = "None", !.pc = "ended"]

\* _make_request 64-76: one attempt of the request
Request(answer) ==
    /\ fetch.pc = "request"
    /\ LET R == [fetch EXCEPT !.attempts = @ + 1] IN
       fetch' = IF answer = "200"
                THEN [R EXCEPT !.response = "200", !.pc = "parse"]
                ELSE IF is_retry(answer)
                THEN (IF is_exhausted(R.total - 1)
                      THEN FetchFailed([R EXCEPT !.total = @ - 1])
                      ELSE [R EXCEPT !.total = @ - 1])
                ELSE FetchFailed(R)
    /\ UNCHANGED <<engineVars, schedVars, cliVars, pro>>

\* scrape 18-24 up to the first yield
ParseDirect(listings) ==
    /\ fetch.pc = "parse"
    /\ fetch' = [fetch EXCEPT !.pages = @ + 1,
                              !.out = DirectLeads(listings),
                              !.pc = IF DirectLeads(listings) = <<>>
                                     THEN "ended" ELSE "yield"]
    /\ UNCHANGED <<engineVars, schedVars, cliVars, pro>>

\* A next() of the generator: on to the next listing
YieldDirect ==
    /\ fetch.pc = "yield"
    /\ fetch' = [fetch EXCEPT !.out = Tail(@),
                              !.pc = IF Tail(fetch.out) = <<>> THEN "ended" ELSE "yield"]
    /\ UNCHANGED <<engineVars, schedVars, cliVars, pro>>

----------------------------------------------------------------------------
(* core/db.py: the tables and the operations on them *)

\* load_sources
load_sources(enabled_only) ==
    IF enabled_only THEN {s \in sources : s.enabled} ELSE sources

\* UNIQUE(business_name, city, phone) of table leads.  SQLite compares the
\* columns of a UNIQUE constraint with NULL distinct from every value, NULL
\* included: a row conflicts only when all three columns are non-NULL and
\* equal.
UniqueConflict(rows, lead) ==
    \E r \in rows :
        /\ r.business_name = lead.business_name
        /\ r.city = lead.city
        /\ r.phone = lead.phone
        /\ None \notin {lead.business_name, lead.city, lead.phone}

\* INSERT OR IGNORE INTO leads: the row is skipped when it breaks the
\* UNIQUE constraint or business_name TEXT NOT NULL
InsertIgnored(rows, lead) ==
    lead.business_name = None \/ UniqueConflict(rows, lead)

LeadRow(id, source_id, lead) ==
    [id |-> id, source_id |-> source_id,
     business_name |-> lead.business_name, city |-> lead.city,
     phone |-> lead.phone, email |-> lead.email, website |-> lead.website,
     score |-> 0]

\* save_lead: the table after the call (cursor.rowcount > 0 iff it grew)
save_lead(rows, seq, source_id, lead) ==
    IF InsertIgnored(rows, lead) THEN rows
    ELSE rows \cup {LeadRow(seq + 1, source_id, lead)}

\* start_scrape_log: the row inserted
StartedLog(id, source_id) ==
    [id |-> id, source_id |-> source_id, status |-> "started",
     leads_scraped |-> 0, error_message |-> None, completed_at |-> FALSE]

\* update_scrape_log without completed_at = CURRENT_TIMESTAMP
update_scrape_log_no_timestamp(rows, log_id, status, leads_scraped, error) ==
    { IF l.id = log_id
      THEN [l EXCEPT !.status = status, !.leads_scraped = leads_scraped,
                     !.error_message = error]
      ELSE l : l \in rows }

\* update_scrape_log: UPDATE scraper_logs SET ... WHERE id = log_id
update_scrape_log(rows, log_id, status, leads_scraped, error) ==
    { IF l.id = log_id
      THEN [l EXCEPT !.status = status, !.leads_scraped = leads_scraped,
                     !.error_message = error, !.completed_at = TRUE]
      ELSE l : l \in rows }

\* delete_source: the three tables after the call.  (Table scheduled_jobs,
\* which it clears as well, is written by no code and is always empty.)
delete_source(source_id) ==
    [sources |-> {s \in sources : s.id # source_id},
     leads |-> {r \in leads : r.source_id # source_id},
     logs |-> {l \in logs : l.source_id # source_id}]

\* UPDATE leads SET score = ? without the WHERE clause
update_lead_score_all(rows, lead_id, score) ==
    { [r EXCEPT !.score = score] : r \in rows }

\* update_lead_score: the table after the call
update_lead_score(rows, lead_id, score) ==
    { IF r.id = lead_id THEN [r EXCEPT !.score = score] ELSE r : r \in rows }

\* Whether a storage operation completes (TRUE) or raises (FALSE)
DbOutcomes == IF dbFaults > 0 THEN {TRUE, FALSE} ELSE {TRUE}

----------------------------------------------------------------------------
(* core/engine.py: HarvestEngine *)

NoResult == [pending |-> TRUE]

\* The frame of a thread that is not inside run_scraper.  The fields after
\* cleanups record what happened in the call and are read by no action:
\* whether the constructor completed, whether the generator raised, whether
\* a storage operation raised, whether the loop ended at line 105, the
\* items the generator yielded, table leads when the call began, the
\* number of rows the call inserted, whether a bulk_save_leads raised, the
\* leads handed to bulk_save_leads and the size of each buffer handed over.
IdleFrame ==
    [pc |-> "idle", source_id |-> 0, max_leads |-> <<>>, source_type |-> None,
     log_id |-> 0, scraper |-> FALSE, pulled |-> 0, leads_buffer |-> <<>>,
     loop_done |-> FALSE, bulk_i |-> 0, saved |-> 0, duplicates |-> 0,
     result |-> NoResult, exc |-> None, cleanups |-> 0,
     ctor_ok |-> TRUE, adapter_raised |-> FALSE, db_failed |-> FALSE,
     capped |-> FALSE, seen |-> <<>>, store0 |-> {}, inserted |-> 0,
     passed |-> <<>>, bulk_sizes |-> <<>>,
     flush_failed |-> FALSE]

Returned(F) == F.pc = "returned"
Finished(F) == F.pc \in {"returned", "raised"}

\* get_scraper without its try / except around the constructor call
get_scraper_unguarded(source_type, ctor_ok) ==
    source_type \in scraper_registry

\* get_scraper: TRUE when an adapter instance is returned, FALSE for None.
\* ctor_ok: whether the adapter's constructor completes.
get_scraper(source_type, ctor_ok) ==
    source_type \in scraper_registry /\ ctor_ok

\* The lookup without its test of the id: the first source there is
FindSourceAnyRow(rows, sid) == rows

\* run_scraper 74: next((s for s in sources if s['id'] == source_id), None),
\* as the set of the rows it can return (ids are the primary key)
FindSource(rows, sid) == {s \in rows : s.id = sid}

\* The cap test off by one: idx > max_leads
CapReachedOffByOne(max_leads, idx) ==
    /\ max_leads # <<>>
    /\ max_leads[1] # 0
    /\ idx > max_leads[1]

\* run_scraper 104: max_leads and idx >= max_leads
CapReached(max_leads, idx) ==
    /\ max_leads # <<>>
    /\ max_leads[1] # 0
    /\ idx >= max_leads[1]

\* The flush test off by one: len(leads_buffer) > buffer_size
FlushDueLate(buffer) == Len(buffer) > buffer_size

\* run_scraper 114: the buffer is due for a flush
FlushDue(buffer) == Len(buffer) >= buffer_size

\* run_scraper 89-95
NewResult ==
    [success |-> FALSE, leads_scraped |-> 0, leads_saved |-> 0,
     duplicates |-> 0, errors |-> <<>>]

\* run_scraper 77, 80, 87: the results of the early returns
ErrorResult(msg) == [success |-> FALSE, error |-> msg]

\* An index that counts the valid leads only
idx_of_valid(F) == F.result.leads_scraped

\* run_scraper 103: enumerate numbers every item the generator yields
idx(F) == F.pulled

\* run_scraper 116 and 126: bulk_save_leads(source_id, leads_buffer) is called
BeginBulk(F) ==
    [F EXCEPT !.pc = "flush", !.bulk_i = 1, !.saved = 0, !.duplicates = 0,
              !.passed = @ \o F.leads_buffer,
              !.bulk_sizes = Append(@, Len(F.leads_buffer))]

\* The loop left without the flush of what the buffer still holds
AfterLoopNoFlush(F) == [F EXCEPT !.loop_done = TRUE, !.pc = "log_success"]

\* run_scraper 124-129: after the loop
AfterLoop(F) ==
    IF F.leads_buffer # <<>>
    THEN BeginBulk([F EXCEPT !.loop_done = TRUE])
    ELSE [F EXCEPT !.loop_done = TRUE, !.pc = "log_success"]

\* run_scraper 103-118 up to the next storage operation: one next() of the
\* generator and the loop body for what it gave
Consume(F, item) ==
    IF item = RAISE
    THEN [F EXCEPT !.pc = "except", !.exc = "adapter error", !.adapter_raised = TRUE]
    ELSE IF item = END
    THEN AfterLoop(F)
    ELSE IF CapReached(F.max_leads, idx(F))
    THEN AfterLoop([F EXCEPT !.pulled = @ + 1, !.capped = TRUE])
    ELSE IF ~validate_lead(item)
    THEN [F EXCEPT !.pulled = @ + 1,
                   !.result.errors =
                       Append(@, "Invalid lead skipped: " \o item.business_name)]
    ELSE LET G == [F EXCEPT !.pulled = @ + 1,
                            !.leads_buffer = Append(@, item),
                            !.result.leads_scraped = @ + 1]
         IN  IF FlushDue(G.leads_buffer) THEN BeginBulk(G) ELSE G

\* run_scraper 134-137: the handler's work before its storage operation
Caught(F) ==
    [F EXCEPT !.result.errors = Append(@, "Scraping failed: " \o F.exc)]

\* cleanup at the end of the try block instead of in finally: it runs only
\* when no exception was raised
FinallyOnlyOnSuccess(F) ==
    [F EXCEPT !.cleanups = IF F.result.success THEN @ + 1 ELSE @,
              !.pc = IF F.exc = None THEN "returned" ELSE "raised"]

\* run_scraper 142-145: finally, then return the result or let the exception
\* of the handler's own storage operation out
Finally(F) ==
    [F EXCEPT !.cleanups = @ + 1,
              !.pc = IF F.exc = None THEN "returned" ELSE "raised"]

\* A call of run_scraper(sid, max_leads=ml) by thread t, up to lines 73-80
CallRunScraper(t, sid, ml) ==
    /\ run[t].pc \in {"idle", "returned", "raised"}
    /\ started' = [started EXCEPT ![t] = @ + 1]
    /\ \E ok \in DbOutcomes :
        LET F == [IdleFrame EXCEPT !.source_id = sid, !.max_leads = ml,
                                   !.store0 = leads]
            found == FindSource(load_sources(FALSE), sid)
            source_config == CHOOSE s \in found : TRUE
        IN  /\ dbFaults' = IF ok THEN dbFaults ELSE dbFaults - 1
            /\ run' = [run EXCEPT ![t] =
                  IF ~ok THEN [F EXCEPT !.pc = "raised", !.db_failed = TRUE,
                                        !.exc = "database error"]
                  ELSE IF found = {}
                  THEN [F EXCEPT !.pc = "returned",
                                 !.result = ErrorResult("Source not found")]
                  ELSE IF ~source_config.enabled
                  THEN [F EXCEPT !.pc = "returned",
                                 !.source_type = source_config.source_type,
                                 !.result = ErrorResult("Source is disabled")]
                  ELSE [F EXCEPT !.pc = "start_log",
                                 !.source_type = source_config.source_type]]
    /\ UNCHANGED <<sources, leads, leadSeq, logs, logSeq, site, yielded>>

\* app.py 101-104: the Scraper page runs a source
RunLookup(t, sid, ml) ==
    /\ started[t] < MaxRuns
    /\ CallRunScraper(t, sid, ml)
    /\ UNCHANGED <<schedVars, adapterVars, cliVars>>

\* run_scraper 82-95: start_scrape_log, then get_scraper
StartLog(t) ==
    LET F == run[t] IN
    /\ F.pc = "start_log"
    /\ \E ok \in DbOutcomes, ctor_ok \in BOOLEAN :
        /\ dbFaults' = IF ok THEN dbFaults ELSE dbFaults - 1
        /\ logs' = IF ok THEN logs \cup {StartedLog(logSeq + 1, F.source_id)} ELSE logs
        /\ logSeq' = IF ok THEN logSeq + 1 ELSE logSeq
        /\ run' = [run EXCEPT ![t] =
              IF ~ok THEN [F EXCEPT !.pc = "raised", !.db_failed = TRUE,
                                    !.exc = "database error"]
              ELSE IF ~get_scraper(F.source_type, ctor_ok)
              THEN [F EXCEPT !.pc = "log_unavailable", !.log_id = logSeq + 1,
                             !.ctor_ok = ctor_ok]
              ELSE [F EXCEPT !.pc = "iterate", !.log_id = logSeq + 1,
                             !.ctor_ok = ctor_ok,
                             !.scraper = TRUE, !.result = NewResult]]
    /\ UNCHANGED <<sources, leads, leadSeq, site, started, yielded>>
    /\ UNCHANGED <<schedVars, adapterVars, cliVars>>

\* run_scraper 85-87
LogUnavailable(t) ==
    LET F == run[t] IN
    /\ F.pc = "log_unavailable"
    /\ \E ok \in DbOutcomes :
        /\ dbFaults' = IF ok THEN dbFaults ELSE dbFaults - 1
        /\ logs' = IF ok
                   THEN update_scrape_log(logs, F.log_id, "failed", 0,
                                          "Scraper not available")
                   ELSE logs
        /\ run' = [run EXCEPT ![t] =
              IF ok THEN [F EXCEPT !.pc = "returned",
                                   !.result = ErrorResult("Scraper not available")]
              ELSE [F EXCEPT !.pc = "raised", !.db_failed = TRUE,
                             !.exc = "database error"]]
    /\ UNCHANGED <<sources, leads, leadSeq, logSeq, site, started, yielded>>
    /\ UNCHANGED <<schedVars, adapterVars, cliVars>>

\* run_scraper 103-118: one iteration of the loop over scraper.scrape()
Pull(t) ==
    LET F == run[t] IN
    /\ F.pc = "iterate"
    /\ \E item \in StreamItems(site[F.source_id], F.pulled) :
        /\ run' = [run EXCEPT ![t] =
              Consume([F EXCEPT !.seen = IF IsLead(item) THEN Append(@, item) ELSE @],
                      item)]
        /\ yielded' = IF IsLead(item) /\ site[F.source_id].kind = "any"
                      THEN yielded + 1 ELSE yielded
        /\ pro' = IF IsLead(item) /\ site[F.source_id].kind = "pro"
                  THEN Resumed(pro) ELSE pro
    /\ UNCHANGED <<sources, leads, leadSeq, logs, logSeq, site, started, dbFaults>>
    /\ UNCHANGED <<schedVars, cliVars, fetch>>

\* The exception of a flush swallowed: the buffer is dropped and the run
\* goes on
FlushRaisedIgnored(F) ==
    [F EXCEPT !.db_failed = TRUE, !.flush_failed = TRUE, !.leads_buffer = <<>>,
              !.pc = IF F.loop_done THEN "log_success" ELSE "iterate"]

\* run_scraper 115 and 125: bulk_save_leads raises inside the try block,
\* control passes to the handler at 134
FlushRaised(F) ==
    [F EXCEPT !.pc = "except", !.db_failed = TRUE, !.flush_failed = TRUE,
              !.exc = "database error"]

\* bulk_save_leads 228-235 with run_scraper 115-118 and 125-127: one
\* save_lead of the flush, and after the last one the totals of the flush
SaveStep(t) ==
    LET F == run[t]
        lead == F.leads_buffer[F.bulk_i]
        rows == save_lead(leads, leadSeq, F.source_id, lead)
        new == rows # leads
        G == [F EXCEPT !.saved = IF new THEN @ + 1 ELSE @,
                       !.duplicates = IF new THEN @ ELSE @ + 1,
                       !.inserted = IF new THEN @ + 1 ELSE @,
                       !.bulk_i = @ + 1]
    IN
    /\ F.pc = "flush"
    /\ \E ok \in DbOutcomes :
        /\ dbFaults' = IF ok THEN dbFaults ELSE dbFaults - 1
        /\ leads' = IF ok THEN rows ELSE leads
        /\ leadSeq' = IF ok /\ new THEN leadSeq + 1 ELSE leadSeq
        /\ run' = [run EXCEPT ![t] =
              IF ~ok THEN FlushRaised(F)
              ELSE IF G.bulk_i <= Len(F.leads_buffer) THEN G
              ELSE [G EXCEPT !.result.leads_saved = @ + G.saved,
                             !.result.duplicates = @ + G.duplicates,
                             !.leads_buffer = <<>>,
                             !.pc = IF F.loop_done THEN "log_success" ELSE "iterate"]]
    /\ UNCHANGED <<sources, logs, logSeq, site, started, yielded>>
    /\ UNCHANGED <<schedVars, adapterVars, cliVars>>

\* The log row given the number of leads the run scraped
LoggedCountScraped(result) == result.leads_scraped

\* run_scraper 130 and 138: leads_scraped=result['leads_saved']
LoggedCount(result) == result.leads_saved

\* run_scraper 129-130
LogSuccess(t) ==
    LET F == [run[t] EXCEPT !.result.success = TRUE] IN
    /\ run[t].pc = "log_success"
    /\ \E ok \in DbOutcomes :
        /\ dbFaults' = IF ok THEN dbFaults ELSE dbFaults - 1
        /\ logs' = IF ok
                   THEN update_scrape_log(logs, F.log_id, "success",
                                          LoggedCount(F.result), None)
                   ELSE logs
        /\ run' = [run EXCEPT ![t] =
              IF ok THEN [F EXCEPT !.pc = "cleanup"]
              ELSE [F EXCEPT !.pc = "except", !.db_failed = TRUE,
                             !.exc = "database error"]]
    /\ UNCHANGED <<sources, leads, leadSeq, logSeq, site, started, yielded>>
    /\ UNCHANGED <<schedVars, adapterVars, cliVars>>

\* run_scraper 134-140: except Exception
HandleException(t) ==
    LET F == Caught(run[t]) IN
    /\ run[t].pc = "except"
    /\ \E ok \in DbOutcomes :
        /\ dbFaults' = IF ok THEN dbFaults ELSE dbFaults - 1
        /\ logs' = IF ok
                   THEN update_scrape_log(logs, F.log_id, "failed",
                                          LoggedCount(F.result),
                                          "Scraping failed: " \o run[t].exc)
                   ELSE logs
        /\ run' = [run EXCEPT ![t] =
              IF ok THEN [F EXCEPT !.pc = "cleanup", !.exc = None]
              ELSE [F EXCEPT !.pc = "cleanup", !.db_failed = TRUE,
                             !.exc = "database error"]]
    /\ UNCHANGED <<sources, leads, leadSeq, logSeq, site, started, yielded>>
    /\ UNCHANGED <<schedVars, adapterVars, cliVars>>

\* run_scraper 142-145: scraper.cleanup(), then the return
Cleanup(t) ==
    /\ run[t].pc = "cleanup"
    /\ run' = [run EXCEPT ![t] = Finally(run[t])]
    /\ UNCHANGED <<sources, leads, leadSeq, logs, logSeq, site, started, yielded, dbFaults>>
    /\ UNCHANGED <<schedVars, adapterVars, cliVars>>

----------------------------------------------------------------------------
(* core/scheduler.py: HarvestScheduler *)

NoCall == [op |-> "none", job_id |-> None]

\* The loop thread before HarvestScheduler.start.  pc: off (no thread),
\* wait (in _run_loop, outside run_pending), pending (inside run_pending),
\* dead (the thread ended with an exception).  queue: the runnable jobs
\* run_pending collected and has not run yet; cur, cur_id: the job it is
\* running; logged: what _run_with_error_handling wrote to the logger.
LoopOff == [pc |-> "off", queue |-> {}, cur |-> 0, cur_id |-> None, logged |-> {}]

\* HarvestScheduler.__init__
SchedulerInit ==
    /\ jobs = <<>>
    /\ triggers = {}
    /\ jobSeq = 0
    /\ running = FALSE
    /\ loop = LoopOff
    /\ left = LoopOff
    /\ lastCall = NoCall
    /\ dues = 0

\* A time of day as the pair of its fields: time_str is HH:MM
TimeStr(ts) == ts[1] \o ":" \o ts[2]

\* The hour of time_str alone
NoColonHour(ts) == ts[1]

\* time_str.replace(':', '')
NoColon(ts) == ts[1] \o ts[2]

\* day.lower() and day.capitalize() for the days the Scheduler page offers
lower(day) == IF day = "Monday" THEN "monday" ELSE "friday"
capitalize(day) == IF day = "Monday" THEN "Monday" ELSE "Friday"

\* add_daily_job 24, add_interval_job 46, add_weekly_job 68
daily_job_id(source_id, ts) ==
    "daily_" \o ToString(source_id) \o "_" \o NoColon(ts)
interval_job_id(source_id, hours) ==
    "interval_" \o ToString(source_id) \o "_" \o ToString(hours) \o "h"
weekly_job_id(source_id, day, ts) ==
    "weekly_" \o ToString(source_id) \o "_" \o day \o "_" \o NoColon(ts)

\* A job of the schedule library, as every().<unit>.do(...) creates it: its
\* identity h, the keyword arguments of _run_with_error_handling, its
\* period, and whether its next_run has been reached.  late is the job the
\* loop thread was running when this one became due (0: none).  args: the
\* call that created it (policy, source_id, day, time_str, hours).
NoArgs == [op |-> "none", source_id |-> 0, day |-> None, time_str |-> None,
           hours |-> 0]

Trigger(h, job_id, source_id, max_leads, unit) ==
    [h |-> h, job_id |-> job_id, source_id |-> source_id,
     max_leads |-> max_leads, unit |-> unit, due |-> FALSE, late |-> 0,
     args |-> NoArgs]

\* self.jobs[job_id] = {...}
Put(f, k, v) == [x \in DOMAIN f \cup {k} |-> IF x = k THEN v ELSE f[x]]

\* del self.jobs[job_id]
Del(f, k) == [x \in DOMAIN f \ {k} |-> f[x]]

\* schedule.clear() in the place of cancel_job: every job is cancelled
cancel_all_jobs(trigs, h) == {}

\* schedule.Scheduler.cancel_job(job): the job is taken off the list
cancel_job(trigs, h) == {tr \in trigs : tr.h # h}

\* The common part of add_daily_job, add_interval_job and add_weekly_job:
\* create the schedule job, then store the bookkeeping entry under job_id
AddJob(op, job_id, source_id, max_leads, unit, schedule, args) ==
    /\ jobSeq < MaxJobs
    /\ jobSeq' = jobSeq + 1
    /\ triggers' = triggers \cup
                      {[Trigger(jobSeq + 1, job_id, source_id, max_leads, unit)
                           EXCEPT !.args = [args EXCEPT !.op = op,
                                                        !.source_id = source_id]]}
    /\ jobs' = Put(jobs, job_id, [job |-> jobSeq + 1, source_id |-> source_id,
                                  schedule |-> schedule])
    /\ lastCall' = [op |-> op, job_id |-> job_id]
    /\ UNCHANGED <<running, loop, left, dues>>
    /\ UNCHANGED <<engineVars, adapterVars, cliVars>>

AddDailyJob(source_id, ts, max_leads) ==
    AddJob("add_daily_job", daily_job_id(source_id, ts), source_id, max_leads,
           "day", "Daily at " \o TimeStr(ts),
           [NoArgs EXCEPT !.time_str = TimeStr(ts)])

AddIntervalJob(source_id, hours, max_leads) ==
    AddJob("add_interval_job", interval_job_id(source_id, hours), source_id,
           max_leads, "hours", "Every " \o ToString(hours) \o " hours",
           [NoArgs EXCEPT !.hours = hours])

AddWeeklyJob(source_id, day, ts, max_leads) ==
    AddJob("add_weekly_job", weekly_job_id(source_id, day, ts), source_id,
           max_leads, lower(day), capitalize(day) \o " at " \o TimeStr(ts),
           [NoArgs EXCEPT !.day = day, !.time_str = TimeStr(ts)])

\* remove_job
RemoveJob(job_id) ==
    /\ IF job_id \in DOMAIN jobs
       THEN /\ triggers' = cancel_job(triggers, jobs[job_id].job)
            /\ jobs' = Del(jobs, job_id)
       ELSE UNCHANGED <<jobs, triggers>>
    /\ lastCall' = [op |-> "remove_job", job_id |-> job_id]
    /\ UNCHANGED <<jobSeq, running, loop, left, dues>>
    /\ UNCHANGED <<engineVars, adapterVars, cliVars>>

\* get_jobs: the ids listed, each with the source of its entry
get_jobs == [k \in DOMAIN jobs |-> jobs[k].source_id]

\* start 108-116.  self.thread becomes a new thread; the thread it was
\* before, when that one is still in its loop, lives on as the thread left
\* (with its frame), unless a left thread exists already
Start ==
    /\ IF running
       THEN UNCHANGED <<running, loop, left, run>>
       ELSE /\ running' = TRUE
            /\ IF loop.pc = "off"
               THEN /\ loop' = [loop EXCEPT !.pc = "wait"]
                    /\ UNCHANGED <<left, run>>
               ELSE /\ left.pc = "off"
                    /\ left' = loop
                    /\ loop' = [LoopOff EXCEPT !.pc = "wait"]
                    /\ run' = [run EXCEPT !["left"] = run["sched"],
                                          !["sched"] = IdleFrame]
    /\ UNCHANGED <<jobs, triggers, jobSeq, lastCall, dues>>
    /\ UNCHANGED <<sources, leads, leadSeq, logs, logSeq, site, started, yielded, dbFaults>>
    /\ UNCHANGED <<adapterVars, cliVars>>

\* stop 124-129: join(timeout=5) returns when the thread has left its loop,
\* which a thread sleeping between two run_pending does within a second,
\* or after five seconds with the thread still inside run_pending
Stop ==
    /\ running' = FALSE
    /\ loop' = IF loop.pc = "wait" THEN [loop EXCEPT !.pc = "off"] ELSE loop
    /\ UNCHANGED <<jobs, triggers, jobSeq, left, lastCall, dues>>
    /\ UNCHANGED <<engineVars, adapterVars, cliVars>>

\* _run_loop 119: the thread finds running false and ends
LoopExit ==
    /\ ~running
    /\ \/ /\ loop.pc = "wait"
          /\ loop' = [loop EXCEPT !.pc = "off"]
          /\ UNCHANGED left
       \/ /\ left.pc = "wait"
          /\ left' = [left EXCEPT !.pc = "off"]
          /\ UNCHANGED loop
    /\ UNCHANGED <<jobs, triggers, jobSeq, running, lastCall, dues>>
    /\ UNCHANGED <<engineVars, adapterVars, cliVars>>

InFlight(F) == F.pc \notin {"idle", "returned", "raised"}

\* The clock reaches the next_run of schedule job h
BecomeDue(h) ==
    /\ dues < MaxDue
    /\ dues' = dues + 1
    /\ \E tr \in triggers :
          /\ tr.h = h
          /\ ~tr.due
          /\ triggers' = (triggers \ {tr}) \cup
                {[tr EXCEPT !.due = TRUE,
                            !.late = IF InFlight(run["sched"]) THEN loop.cur ELSE 0]}
    /\ UNCHANGED <<jobs, jobSeq, running, loop, left, lastCall>>
    /\ UNCHANGED <<engineVars, adapterVars, cliVars>>

\* _run_loop 120-121 with schedule's run_pending: the jobs whose next_run
\* is reached are collected (an empty collection: sleep and test again)
RunPending ==
    /\ loop.pc = "wait"
    /\ running
    /\ \E tr \in triggers : tr.due
    /\ loop' = [loop EXCEPT !.pc = "pending",
                            !.queue = {tr \in triggers : tr.due}]
    /\ UNCHANGED <<jobs, triggers, jobSeq, running, left, lastCall, dues>>
    /\ UNCHANGED <<engineVars, adapterVars, cliVars>>

\* run_pending runs the next collected job: _run_with_error_handling 89-91
\* calls run_scraper in the loop thread
RunJob(tr) ==
    /\ loop.pc = "pending"
    /\ loop.cur = 0
    /\ tr \in loop.queue
    /\ CallRunScraper("sched", tr.source_id, tr.max_leads)
    /\ loop' = [loop EXCEPT !.cur = tr.h, !.cur_id = tr.job_id, !.queue = @ \ {tr}]
    /\ UNCHANGED <<jobs, triggers, jobSeq, running, left, lastCall, dues, pro, fetch, seed>>

\* What lines 93-99 log about the call that ended with frame F
Logged(job_id, F) ==
    [job_id |-> job_id,
     text |-> IF F.pc = "raised" THEN "crashed"
              ELSE IF F.result.success THEN "completed" ELSE "failed"]

\* The loop thread after the job: sleep when it was the last collected one
Resume(L) ==
    [L EXCEPT !.cur = 0, !.cur_id = None,
              !.pc = IF L.queue = {} THEN "wait" ELSE "pending"]

\* _run_with_error_handling without its except clause: the exception of
\* run_scraper leaves run_pending and _run_loop, and the thread ends
AfterJobUnhandled(L, F) ==
    IF F.pc = "raised"
    THEN [L EXCEPT !.cur = 0, !.cur_id = None, !.queue = {}, !.pc = "dead"]
    ELSE [Resume(L) EXCEPT !.logged = @ \cup {Logged(L.cur_id, F)}]

\* _run_with_error_handling 93-99: the result or the exception is logged
\* and the wrapper returns to run_pending
AfterJob(L, F) ==
    [Resume(L) EXCEPT !.logged = @ \cup {Logged(L.cur_id, F)}]

\* The call of run_scraper in the loop thread has ended: the wrapper
\* returns, schedule sets the job's next_run, run_pending goes on
JobDone ==
    /\ loop.cur # 0
    /\ Finished(run["sched"])
    /\ loop' = AfterJob(loop, run["sched"])
    /\ triggers' = { IF tr.h = loop.cur /\ loop'.pc # "dead"
                     THEN [tr EXCEPT !.due = FALSE, !.late = 0] ELSE tr :
                     tr \in triggers }
    /\ run' = [run EXCEPT !["sched"] = IdleFrame]
    /\ UNCHANGED <<jobs, jobSeq, running, left, lastCall, dues, pro, fetch, seed>>
    /\ UNCHANGED <<sources, leads, leadSeq, logs, logSeq, site, started, yielded, dbFaults>>

\* The same steps of _run_loop, taken by the thread left
LeftRunPending ==
    /\ left.pc = "wait"
    /\ running
    /\ \E tr \in triggers : tr.due
    /\ left' = [left EXCEPT !.pc = "pending",
                            !.queue = {tr \in triggers : tr.due}]
    /\ UNCHANGED <<jobs, triggers, jobSeq, running, loop, lastCall, dues>>
    /\ UNCHANGED <<engineVars, adapterVars, cliVars>>

LeftRunJob(tr) ==
    /\ left.pc = "pending"
    /\ left.cur = 0
    /\ tr \in left.queue
    /\ CallRunScraper("left", tr.source_id, tr.max_leads)
    /\ left' = [left EXCEPT !.cur = tr.h, !.cur_id = tr.job_id, !.queue = @ \ {tr}]
    /\ UNCHANGED <<jobs, triggers, jobSeq, running, loop, lastCall, dues, pro, fetch, seed>>

LeftJobDone ==
    /\ left.cur # 0
    /\ Finished(run["left"])
    /\ left' = AfterJob(left, run["left"])
    /\ triggers' = { IF tr.h = left.cur
                     THEN [tr EXCEPT !.due = FALSE, !.late = 0] ELSE tr :
                     tr \in triggers }
    /\ run' = [run EXCEPT !["left"] = IdleFrame]
    /\ UNCHANGED <<jobs, jobSeq, running, loop, lastCall, dues, pro, fetch, seed>>
    /\ UNCHANGED <<sources, leads, leadSeq, logs, logSeq, site, started, yielded, dbFaults>>

----------------------------------------------------------------------------
(* utils/advanced_anti_detection.py: ProxyManager, and                     *)
(* scrapers/yellowpages_pro.py: YellowPagesProScraper.                     *)
(* A proxy "host:port" is a sequence of tokens, so that the proxy          *)
(* dictionary ("http://" put in front) and mark_proxy_failed's             *)
(* replace('http://', '') are computed as the code computes them.  An      *)
(* optional proxy dictionary is <<>> for None and <<d>> for d.             *)

Scheme == "http://"

\* get_working_proxy 50, 61: the dictionary of a proxy
ProxyDict(proxy) == [http |-> <<Scheme>> \o proxy, https |-> <<Scheme>> \o proxy]

\* proxy_dict['http'].replace('http://', '')
StripScheme(url) == LET Keep(tok) == tok # Scheme IN SelectSeq(url, Keep)

InList(x, list) == \E i \in 1..Len(list) : list[i] = x

\* list.remove(x): the first occurrence is taken out
Remove(list, x) ==
    LET i == CHOOSE k \in 1..Len(list) :
                 list[k] = x /\ \A j \in 1..(k - 1) : list[j] # x
    IN  SubSeq(list, 1, i - 1) \o SubSeq(list, i + 1, Len(list))

\* ProxyManager.__init__
NewProxyManager == [proxies |-> <<>>, working_proxies |-> <<>>, failed_proxies |-> {}]

\* fetch_free_proxies: fetched is what the three list sources gave (the
\* empty list when all of them failed)
fetch_free_proxies(pm, fetched) == [pm EXCEPT !.proxies = fetched]

\* get_working_proxy 55-64: while tested < 10 and self.proxies
MaxTested == 10

\* The loop without the limit on tested: while self.proxies
RECURSIVE TestLoopUnbounded(_, _, _)
TestLoopUnbounded(pm, tested, pass) ==
    IF pm.proxies # <<>>
    THEN LET proxy == Head(pm.proxies)
             rest == [pm EXCEPT !.proxies = Tail(@)]
         IN  IF proxy \notin pm.failed_proxies
             THEN IF proxy \in pass
                  THEN [pm |-> [rest EXCEPT !.working_proxies = Append(@, proxy)],
                        proxy |-> <<ProxyDict(proxy)>>]
                  ELSE TestLoopUnbounded([rest EXCEPT !.failed_proxies = @ \cup {proxy}],
                                         tested + 1, pass)
             ELSE TestLoopUnbounded(rest, tested + 1, pass)
    ELSE [pm |-> pm, proxy |-> <<>>]

RECURSIVE TestLoop(_, _, _)
TestLoop(pm, tested, pass) ==
    IF tested < MaxTested /\ pm.proxies # <<>>
    THEN LET proxy == Head(pm.proxies)
             rest == [pm EXCEPT !.proxies = Tail(@)]
         IN  IF proxy \notin pm.failed_proxies
             THEN IF proxy \in pass
                  THEN [pm |-> [rest EXCEPT !.working_proxies = Append(@, proxy)],
                        proxy |-> <<ProxyDict(proxy)>>]
                  ELSE TestLoop([rest EXCEPT !.failed_proxies = @ \cup {proxy}],
                                tested + 1, pass)
             ELSE TestLoop(rest, tested + 1, pass)
    ELSE [pm |-> pm, proxy |-> <<>>]

\* get_working_proxy: the possible outcomes, each the manager after the call
\* and the dictionary returned.  pass: the proxies for which test_proxy
\* returns True; fetched: what a new fetch_free_proxies would load.
get_working_proxy(pm, fetched, pass) ==
    IF pm.working_proxies # <<>>
    THEN { [pm |-> pm, proxy |-> <<ProxyDict(pm.working_proxies[i])>>] :
           i \in 1..Len(pm.working_proxies) }
    ELSE { TestLoop(IF pm.proxies = <<>> THEN fetch_free_proxies(pm, fetched) ELSE pm,
                    0, pass) }

\* mark_proxy_failed
mark_proxy_failed(pm, proxy_dict) ==
    IF proxy_dict # <<>>
    THEN LET proxy == StripScheme(proxy_dict[1].http)
         IN  [pm EXCEPT !.working_proxies =
                            IF InList(proxy, @) THEN Remove(@, proxy) ELSE @,
                        !.failed_proxies = @ \cup {proxy}]
    ELSE pm

\* _make_request_with_rotation 23
MaxAttempts == 5

\* The attempt test one later: if attempt > 6
ExhaustedLate(attempt) == attempt > MaxAttempts + 1

\* _make_request_with_rotation 23: if attempt > 5
Exhausted(attempt) == attempt > MaxAttempts

\* YellowPagesProScraper.__init__, and scrape at its first page.  pc:
\* request (inside _make_request_with_rotation for the url of page), parse
\* (a response was returned), yield (suspended at the yield of line 70),
\* ended (the generator is finished), raised (it raised).
\* response: what the last call of _make_request_with_rotation returned.
\* out: the leads of the page that are still to be yielded.
\* found: the number of listings of the page parsed last.
\* hist records the requests.get calls made for the current url: the proxy
\* used and the outcome.
NewAdapter(fetched) ==
    [pc |-> "request", page |-> 1, attempt |-> 1, current_proxy |-> <<>>,
     proxy_manager |-> fetch_free_proxies(NewProxyManager, fetched),
     response |-> "pending", out |-> <<>>, found |-> <<>>, hist |-> <<>>]

\* A None response taken for an error: scrape raises
ReturnNoneRaises(R) == [R EXCEPT !.response = "None", !.pc = "raised"]

\* _make_request_with_rotation returns None; scrape 58-59 leaves the loop
ReturnNone(R) == [R EXCEPT !.response = "None", !.pc = "ended"]

\* YellowPagesProScraper.parse_lead: <<>> for None, else the lead, whose
\* keys email and website do not exist (lead.get gives None for them)
parse_lead_pro(element) ==
    IF element.business_name = None
    THEN <<>>
    ELSE <<Lead(element.business_name, element.city, element.phone, None, None)>>

\* scrape 67-70: the leads the listings of a page give, in order
RECURSIVE ParsedLeads(_)
ParsedLeads(listings) ==
    IF listings = <<>> THEN <<>>
    ELSE parse_lead_pro(Head(listings)) \o ParsedLeads(Tail(listings))

\* _make_request_with_rotation 33-51 for one attempt: the outcome of
\* requests.get is a status code or an exception
AfterGet(R, outcome) ==
    LET G == [R EXCEPT !.hist = Append(@, [proxy |-> StripScheme(R.current_proxy[1].http),
                                           outcome |-> outcome])]
    IN  IF outcome \in {"403", "exception"}
        THEN [G EXCEPT !.proxy_manager = mark_proxy_failed(@, R.current_proxy),
                       !.attempt = @ + 1]
        ELSE IF outcome = "200"
        THEN [G EXCEPT !.response = "200", !.pc = "parse"]
        ELSE [G EXCEPT !.attempt = @ + 1]

Outcomes == {"200", "403", "500", "exception"}

\* One entry of _make_request_with_rotation(url, attempt), lines 23-51
Attempt(fetched, pass, outcome) ==
    /\ pro.pc = "request"
    /\ IF Exhausted(pro.attempt)
       THEN pro' = ReturnNone(pro)
       ELSE IF pro.current_proxy = <<>> \/ pro.attempt > 1
       THEN \E d \in get_working_proxy(pro.proxy_manager, fetched, pass) :
               LET R == [pro EXCEPT !.proxy_manager = d.pm, !.current_proxy = d.proxy]
               IN  pro' = IF d.proxy = <<>> THEN ReturnNone(R) ELSE AfterGet(R, outcome)
       ELSE pro' = AfterGet(pro, outcome)
    /\ UNCHANGED <<engineVars, schedVars, cliVars, fetch>>

\* scrape 61-70: the page has no listing and the loop is left, or its
\* listings are parsed up to the first lead to yield
Parse(listings) ==
    /\ pro.pc = "parse"
    /\ LET R == [pro EXCEPT !.found = <<Len(listings)>>] IN
       pro' = IF listings = <<>>
              THEN [R EXCEPT !.pc = "ended"]
              ELSE IF ParsedLeads(listings) = <<>>
              THEN AfterPage(R)
              ELSE [R EXCEPT !.pc = "yield", !.out = ParsedLeads(listings)]
    /\ UNCHANGED <<engineVars, schedVars, cliVars, fetch>>

\* A next() of the generator by a consumer other than the engine
YieldLead ==
    /\ pro.pc = "yield"
    /\ pro' = Resumed(pro)
    /\ UNCHANGED <<engineVars, schedVars, cliVars, fetch>>

----------------------------------------------------------------------------
(* app.py, Settings page: the enable / disable checkbox of a source *)

\* db.update_source(source['id'], {'enabled': enabled})
UpdateSource(sid, enabled) ==
    /\ \E s \in sources : s.id = sid /\ s.enabled # enabled
    /\ sources' = { IF s.id = sid THEN [s EXCEPT !.enabled = enabled] ELSE s :
                    s \in sources }
    /\ UNCHANGED <<leads, leadSeq, logs, logSeq, site, run, started, yielded, dbFaults>>
    /\ UNCHANGED <<schedVars, adapterVars, cliVars>>

\* A caller of DatabaseManager.update_lead_score
UpdateLeadScore(lead_id, score) ==
    /\ leads' = update_lead_score(leads, lead_id, score)
    /\ UNCHANGED <<sources, leadSeq, logs, logSeq, site, run, started, yielded, dbFaults>>
    /\ UNCHANGED <<schedVars, adapterVars, cliVars>>

\* app.py 246-247: the Delete Source button of a listed source
DeleteSource(sid) ==
    /\ \E s \in sources : s.id = sid
    /\ sources' = delete_source(sid).sources
    /\ leads' = delete_source(sid).leads
    /\ logs' = delete_source(sid).logs
    /\ UNCHANGED <<leadSeq, logSeq, site, run, started, yielded, dbFaults>>
    /\ UNCHANGED <<schedVars, adapterVars, cliVars>>

----------------------------------------------------------------------------
(* init_db.py: the seeding command, and db.add_source.  In the            *)
(* specification of the command a row of table sources also has its name. *)

\* config/production_sources.py: the first entries of PRODUCTION_SOURCES
\* (their names, like those of all ten, are pairwise distinct)
SourceEntry(name) == [name |-> name, source_type |-> "example_direct", enabled |-> FALSE]

PRODUCTION_SOURCES ==
    << SourceEntry("Yellow Pages US"),
       SourceEntry("Yelp Business Directory"),
       SourceEntry("Better Business Bureau") >>

\* The command is not running.  pc: off, loop (at entry i of the list),
\* done.  failed: the entries whose try block raised in this run.
NotSeeding ==
    [pc |-> "off", i |-> 0, loaded |-> 0, skipped |-> 0, failed |-> {}, runs |-> 0]

\* id INTEGER PRIMARY KEY AUTOINCREMENT, while no row has been deleted
NextSourceId == 1 + Cardinality(sources)

\* add_source: <<>> when the INSERT raises (name TEXT UNIQUE NOT NULL),
\* else the table after it
add_source(config) ==
    IF \E s \in sources : s.name = config.name
    THEN <<>>
    ELSE << sources \cup {[id |-> NextSourceId, name |-> config.name,
                           source_type |-> config.source_type,
                           enabled |-> config.enabled]} >>

\* init_database 13-18
InitDatabase ==
    /\ seed.pc \in {"off", "done"}
    /\ seed.runs < MaxSeeds
    /\ seed' = [NotSeeding EXCEPT !.pc = "loop", !.i = 1, !.runs = seed.runs + 1]
    /\ UNCHANGED <<engineVars, schedVars, adapterVars>>

\* The loop of init_database goes on to the next entry
NextEntry(S) ==
    IF S.i = Len(PRODUCTION_SOURCES)
    THEN [S EXCEPT !.pc = "done"]
    ELSE [S EXCEPT !.i = @ + 1]

\* The loop ended by the failure of an entry
EntryFailedAborts(S) == [S EXCEPT !.failed = @ \cup {S.i}, !.pc = "done"]

\* init_database 30-31: the except clause of an entry
EntryFailed(S) == NextEntry([S EXCEPT !.failed = @ \cup {S.i}])

\* init_database 20-31: one entry of the list.  load_sources and
\* add_source are storage operations of their own and may raise
SeedEntry ==
    /\ seed.pc = "loop"
    /\ LET source_config == PRODUCTION_SOURCES[seed.i] IN
       \E load_ok \in DbOutcomes :
          IF ~load_ok
          THEN /\ dbFaults' = dbFaults - 1
               /\ seed' = EntryFailed(seed)
               /\ UNCHANGED sources
          ELSE LET existing == load_sources(FALSE) IN
               IF \E s \in existing : s.name = source_config.name
               THEN /\ seed' = NextEntry([seed EXCEPT !.skipped = @ + 1])
                    /\ UNCHANGED <<sources, dbFaults>>
               ELSE \E add_ok \in DbOutcomes :
                       LET added == add_source(source_config) IN
                       IF add_ok /\ added # <<>>
                       THEN /\ sources' = added[1]
                            /\ seed' = NextEntry([seed EXCEPT !.loaded = @ + 1])
                            /\ UNCHANGED dbFaults
                       ELSE /\ dbFaults' = IF add_ok THEN dbFaults ELSE dbFaults - 1
                            /\ seed' = EntryFailed(seed)
                            /\ UNCHANGED sources
    /\ UNCHANGED <<leads, leadSeq, logs, logSeq, site, run, started, yielded>>
    /\ UNCHANGED <<schedVars, adapterVars>>

----------------------------------------------------------------------------
(* Specifications *)

\* The values of max_leads that callers pass
Caps == {<<>>, <<0>>, <<1>>, <<2>>}

\* The source types of the configured sources: one with an adapter under
\* scrapers/, one without
SourceTypes == {"example_direct", "custom_api"}

\* What earlier runs left in the tables: nothing, or one successful run of
\* source 1 that saved the lead with the complete natural key (A, X, 1)
EarlierRuns ==
    { [leads |-> {}, logs |-> {}],
      [leads |-> {LeadRow(1, 1, Lead("A", "X", "1", None, None))},
       logs |-> {[StartedLog(1, 1) EXCEPT !.status = "success",
                                          !.leads_scraped = 1,
                                          !.completed_at = TRUE]}] }

\* One configured source, id 1; id 2 is the id of no source
InitTables ==
    /\ \E ty \in SourceTypes :
          sources = { [id |-> 1, source_type |-> ty, enabled |-> TRUE] }
    /\ \E before \in EarlierRuns :
          /\ leads = before.leads
          /\ leadSeq = Cardinality(before.leads)
          /\ logs = before.logs
          /\ logSeq = Cardinality(before.logs)
    /\ run = [t \in Threads |-> IdleFrame]
    /\ started = [t \in Threads |-> 0]
    /\ yielded = 0
    /\ SchedulerInit
    /\ pro = NewAdapter(<<>>)
    /\ seed = NotSeeding
    /\ fetch = NewDirect

Init ==
    /\ InitTables
    /\ site = [s \in SourceIds |-> AnySite]
    /\ dbFaults = 0

Step(t) ==
    \/ StartLog(t)
    \/ LogUnavailable(t)
    \/ Pull(t)
    \/ SaveStep(t)
    \/ LogSuccess(t)
    \/ HandleException(t)
    \/ Cleanup(t)

Next ==
    \/ \E t \in Foreground, sid \in SourceIds, ml \in Caps : RunLookup(t, sid, ml)
    \/ \E t \in Foreground : Step(t)
    \/ \E sid \in SourceIds, enabled \in BOOLEAN : UpdateSource(sid, enabled)

Spec == Init /\ [][Next]_vars

\* Storage failures: the same program, with the storage allowed to fail
InitFault ==
    /\ InitTables
    /\ site = [s \in SourceIds |-> AnySite]
    /\ dbFaults = MaxFaults

FaultCaps == {<<>>, <<1>>}

NextFault ==
    \/ \E t \in Foreground, sid \in SourceIds, ml \in FaultCaps : RunLookup(t, sid, ml)
    \/ \E t \in Foreground : Step(t)

SpecFault == InitFault /\ [][NextFault]_vars

\* Long streams: source 1 serves n valid, pairwise distinct leads and then
\* ends or raises; the lengths lie around the buffer size and its double
LongLens == {buffer_size - 1, buffer_size, buffer_size + 1, buffer_size + 10,
             2 * buffer_size, 2 * buffer_size + 1}

LongCaps == {<<>>, <<0>>, <<buffer_size>>, <<buffer_size + 10>>}

InitLong ==
    /\ InitTables
    /\ \E n \in LongLens, e \in {END, RAISE} :
          site = [s \in SourceIds |-> [kind |-> "fresh", n |-> n, ending |-> e]]
    /\ dbFaults = 0

NextLong ==
    \/ \E t \in Foreground, sid \in SourceIds, ml \in LongCaps : RunLookup(t, sid, ml)
    \/ \E t \in Foreground : Step(t)

SpecLong == InitLong /\ [][NextLong]_vars

\* The Scheduler and Settings pages: jobs are added for enabled sources and
\* removed, sources are deleted.  Two sources, each with the rows of one
\* earlier run.
Nine == <<"09", "00">>

\* app.py 355: the default of the Hours input
DefaultHours == 6

\* The job ids of the Active Jobs tab
JobIds ==
    {daily_job_id(sid, Nine) : sid \in SourceIds}
        \cup {interval_job_id(1, DefaultHours), weekly_job_id(1, "Monday", Nine)}

InitJobs ==
    /\ sources = { [id |-> sid, source_type |-> "example_direct", enabled |-> TRUE] :
                   sid \in SourceIds }
    /\ leads = { LeadRow(sid, sid, Lead("A", "X", "1", None, None)) : sid \in SourceIds }
    /\ leadSeq = Cardinality(SourceIds)
    /\ logs = { [StartedLog(sid, sid) EXCEPT !.status = "success",
                                             !.leads_scraped = 1,
                                             !.completed_at = TRUE] : sid \in SourceIds }
    /\ logSeq = Cardinality(SourceIds)
    /\ run = [t \in Threads |-> IdleFrame]
    /\ started = [t \in Threads |-> 0]
    /\ yielded = 0
    /\ site = [s \in SourceIds |-> AnySite]
    /\ dbFaults = 0
    /\ SchedulerInit
    /\ pro = NewAdapter(<<>>)
    /\ seed = NotSeeding
    /\ fetch = NewDirect

NextJobs ==
    \/ \E s \in load_sources(TRUE) : AddDailyJob(s.id, Nine, <<>>)
    \/ \E s \in load_sources(TRUE) : s.id = 1 /\ AddIntervalJob(s.id, DefaultHours, <<>>)
    \/ \E s \in load_sources(TRUE) : s.id = 1 /\ AddWeeklyJob(s.id, "Monday", Nine, <<>>)
    \/ \E job_id \in JobIds : RemoveJob(job_id)
    \/ \E sid \in SourceIds : DeleteSource(sid)

SpecJobs == InitJobs /\ [][NextJobs]_vars

\* The schedules of the Scheduler page with several times of day, periods
\* and limits; schedule accepts a time of day as HH:MM
Times == {Nine, <<"09", "30">>, <<"10", "00">>}
Periods == {DefaultHours, 2 * DefaultHours}
Limits == {<<>>, <<5>>}

IdsOf ==
    {daily_job_id(sid, ts) : sid \in SourceIds, ts \in Times}
        \cup {interval_job_id(sid, hours) : sid \in SourceIds, hours \in Periods}
        \cup {weekly_job_id(1, day, ts) : day \in {"Monday", "Friday"},
                                          ts \in Times \ {Nine}}

NextIds ==
    \/ \E s \in load_sources(TRUE), ts \in Times, max_leads \in Limits :
          AddDailyJob(s.id, ts, max_leads)
    \/ \E s \in load_sources(TRUE), hours \in Periods :
          AddIntervalJob(s.id, hours, <<>>)
    \/ \E day \in {"Monday", "Friday"}, ts \in Times \ {Nine}, max_leads \in Limits :
          AddWeeklyJob(1, day, ts, max_leads)
    \/ \E job_id \in IdsOf : RemoveJob(job_id)

SpecIds == InitJobs /\ [][NextIds]_vars

\* The scheduler at work: two enabled sources whose adapters yield one lead
\* and end or raise, a daily and an interval job registered (one per source,
\* or both for source 1), the loop thread and the clock; the storage may
\* fail.
SchedSetups == {<<1, 2>>, <<1, 1>>}

ShortSites == {END, RAISE}

InitScheduled ==
    /\ sources = { [id |-> sid, source_type |-> "example_direct", enabled |-> TRUE] :
                   sid \in SourceIds }
    /\ leads = {}
    /\ leadSeq = 0
    /\ logs = {}
    /\ logSeq = 0
    /\ run = [t \in Threads |-> IdleFrame]
    /\ started = [t \in Threads |-> 0]
    /\ yielded = 0
    /\ \E e \in ShortSites :
          site = [s \in SourceIds |-> [kind |-> "fresh", n |-> 1, ending |-> e]]
    /\ \E setup \in SchedSetups :
          LET id1 == daily_job_id(setup[1], Nine)
              id2 == interval_job_id(setup[2], DefaultHours)
          IN  /\ triggers = { Trigger(1, id1, setup[1], <<>>, "day"),
                              Trigger(2, id2, setup[2], <<>>, "hours") }
              /\ jobs = Put(Put(<<>>, id1, [job |-> 1, source_id |-> setup[1],
                                            schedule |-> "Daily at " \o TimeStr(Nine)]),
                            id2, [job |-> 2, source_id |-> setup[2],
                                  schedule |-> "Every " \o ToString(DefaultHours) \o " hours"])
              /\ lastCall = [op |-> "add_interval_job", job_id |-> id2]
    /\ jobSeq = Cardinality(triggers)
    /\ running = FALSE
    /\ loop = LoopOff
    /\ left = LoopOff
    /\ dues = 0
    /\ pro = NewAdapter(<<>>)
    /\ seed = NotSeeding
    /\ fetch = NewDirect

\* The steps of the loop thread
LoopStep ==
    \/ RunPending
    \/ \E tr \in loop.queue : RunJob(tr)
    \/ JobDone
    \/ Step("sched")

InitSched == InitScheduled /\ dbFaults = MaxFaults

NextSched ==
    \/ Start
    \/ \E tr \in triggers : BecomeDue(tr.h)
    \/ LoopStep

\* The loop thread is a thread of the running process: it is scheduled as
\* long as it has a step to take
SpecSched == InitSched /\ [][NextSched]_vars /\ WF_vars(LoopStep)

\* The same with the Scraper page running sources in the foreground, and
\* a storage that does not fail
InitBoth == InitScheduled /\ dbFaults = 0

NextBoth ==
    \/ NextSched
    \/ \E t \in Foreground, sid \in SourceIds : RunLookup(t, sid, <<>>)
    \/ \E t \in Foreground : Step(t)

SpecBoth == InitBoth /\ [][NextBoth]_vars

\* The proxy-rotating adapter on its own: three proxies, the list sources
\* giving none, two or all of them
P1 == <<"10.0.0.1:80">>
P2 == <<"10.0.0.2:80">>
P3 == <<"10.0.0.3:80">>

Proxies == {P1, P2, P3}

FetchResults == {<<>>, <<P1, P2>>, <<P2, P3, P1>>}

InitPro ==
    /\ sources = {[id |-> 1, source_type |-> "yellowpages_pro", enabled |-> TRUE]}
    /\ leads = {}
    /\ leadSeq = 0
    /\ logs = {}
    /\ logSeq = 0
    /\ run = [t \in Threads |-> IdleFrame]
    /\ started = [t \in Threads |-> 0]
    /\ yielded = 0
    /\ site = [s \in SourceIds |-> AnySite]
    /\ dbFaults = 0
    /\ SchedulerInit
    /\ \E fetched \in FetchResults : pro = NewAdapter(fetched)
    /\ seed = NotSeeding
    /\ fetch = NewDirect

\* What a result page holds: no listing, one with a name and a phone, or
\* one without name before one with a name only
Pages ==
    { <<>>,
      <<Element("A", "1", None, None, "X")>>,
      <<Element(None, "1", None, None, "X"), Element("B", None, None, None, None)>> }

NextPro ==
    \/ \E fetched \in FetchResults, pass \in SUBSET Proxies, outcome \in Outcomes :
          Attempt(fetched, pass, outcome)
    \/ \E listings \in Pages : Parse(listings)
    \/ YieldLead

SpecPro == InitPro /\ [][NextPro]_vars

\* One ProxyManager under any sequence of get_working_proxy and
\* mark_proxy_failed calls.  The list sources give no proxy, two, or one
\* more than a call of get_working_proxy may test; current_proxy is what
\* the last get_working_proxy returned.
Candidate(i) == <<"10.0.0." \o ToString(i) \o ":80">>

ManyProxies == [i \in 1..(MaxTested + 1) |-> Candidate(i)]

ProxyFetches == {<<>>, <<P1, P2>>, ManyProxies}

ProxyPasses == SUBSET {P1, P2, Candidate(MaxTested), Candidate(MaxTested + 1)}

\* The dictionaries callers hand to mark_proxy_failed
Marked ==
    {<<>>} \cup {<<ProxyDict(Candidate(i))>> : i \in {1, 2, 3, MaxTested, MaxTested + 1}}

GetWorkingProxy(fetched, pass) ==
    /\ \E d \in get_working_proxy(pro.proxy_manager, fetched, pass) :
          pro' = [pro EXCEPT !.proxy_manager = d.pm, !.current_proxy = d.proxy]
    /\ UNCHANGED <<engineVars, schedVars, cliVars, fetch>>

MarkProxyFailed(proxy_dict) ==
    /\ pro' = [pro EXCEPT !.proxy_manager = mark_proxy_failed(@, proxy_dict)]
    /\ UNCHANGED <<engineVars, schedVars, cliVars, fetch>>

InitProxy ==
    /\ sources = {[id |-> 1, source_type |-> "yellowpages_pro", enabled |-> TRUE]}
    /\ leads = {}
    /\ leadSeq = 0
    /\ logs = {}
    /\ logSeq = 0
    /\ run = [t \in Threads |-> IdleFrame]
    /\ started = [t \in Threads |-> 0]
    /\ yielded = 0
    /\ site = [s \in SourceIds |-> AnySite]
    /\ dbFaults = 0
    /\ SchedulerInit
    /\ \E fetched \in ProxyFetches : pro = NewAdapter(fetched)
    /\ seed = NotSeeding
    /\ fetch = NewDirect

NextProxy ==
    \/ \E fetched \in ProxyFetches, pass \in ProxyPasses : GetWorkingProxy(fetched, pass)
    \/ \E proxy_dict \in Marked \cup {pro.current_proxy} : MarkProxyFailed(proxy_dict)

SpecProxy == InitProxy /\ [][NextProxy]_vars

\* A run of a yellowpages_pro source: the instance is the one get_scraper
\* constructs, with what fetch_free_proxies loaded in its constructor; the
\* adapter advances while the engine is inside next()
InitProRun ==
    /\ sources = {[id |-> 1, source_type |-> "yellowpages_pro", enabled |-> TRUE]}
    /\ leads = {}
    /\ leadSeq = 0
    /\ logs = {}
    /\ logSeq = 0
    /\ run = [t \in Threads |-> IdleFrame]
    /\ started = [t \in Threads |-> 0]
    /\ yielded = 0
    /\ site = [s \in SourceIds |-> [kind |-> "pro", n |-> 0, ending |-> END]]
    /\ dbFaults = 0
    /\ SchedulerInit
    /\ pro = NewAdapter(<<>>)
    /\ seed = NotSeeding
    /\ fetch = NewDirect

\* The Scraper page's call for a yellowpages_pro source; get_scraper
\* constructs a new instance, whose constructor fetches the proxy lists
RunPro(t, ml, fetched) ==
    /\ started[t] < MaxRuns
    /\ CallRunScraper(t, 1, ml)
    /\ pro' = NewAdapter(fetched)
    /\ UNCHANGED <<schedVars, cliVars, fetch>>

InNext == \E t \in Foreground : run[t].pc = "iterate"

\* What the proxy lists return, which proxies pass their test and what the
\* site answers, for the runs
RunFetches == {<<>>, <<P1, P2>>}
RunPasses == {{}, {P1}, Proxies}
RunOutcomes == {"200", "403"}

NextProRun ==
    \/ \E t \in Foreground, ml \in FaultCaps, fetched \in RunFetches : RunPro(t, ml, fetched)
    \/ \E t \in Foreground :
          \/ StartLog(t)
          \/ LogUnavailable(t)
          \/ Pull(t)
          \/ SaveStep(t)
          \/ LogSuccess(t)
          \/ Cleanup(t)
    \/ \E fetched \in RunFetches, pass \in RunPasses, outcome \in RunOutcomes :
          InNext /\ Attempt(fetched, pass, outcome)
    \/ \E listings \in Pages : InNext /\ Parse(listings)

SpecProRun == InitProRun /\ [][NextProRun]_vars

\* The listings the page of an example_direct source holds
DirectPages ==
    { <<>>,
      <<Element("A", "1", None, None, "X")>>,
      <<Element("A", None, None, None, None), Element("B", None, "b@x.com", None, "X")>>,
      <<Element(None, "1", None, "w", "X"), Element("B", "1", None, None, None)>> }

\* One source for each registered adapter, each with the page it serves
InitParse ==
    /\ sources = {[id |-> 1, source_type |-> "example_direct", enabled |-> TRUE],
                  [id |-> 2, source_type |-> "yellowpages_pro", enabled |-> TRUE]}
    /\ leads = {}
    /\ leadSeq = 0
    /\ logs = {}
    /\ logSeq = 0
    /\ run = [t \in Threads |-> IdleFrame]
    /\ started = [t \in Threads |-> 0]
    /\ yielded = 0
    /\ \E listings \in DirectPages :
          site = [s \in SourceIds |->
                    IF s = 1
                    THEN [kind |-> "direct", listings |-> listings, n |-> 0, ending |-> END]
                    ELSE [kind |-> "pro", n |-> 0, ending |-> END]]
    /\ dbFaults = 0
    /\ SchedulerInit
    /\ pro = NewAdapter(<<>>)
    /\ seed = NotSeeding
    /\ fetch = NewDirect

\* The Scraper page's call for one of the sources
RunParse(t, sid, fetched) ==
    /\ started[t] < MaxRuns
    /\ CallRunScraper(t, sid, <<>>)
    /\ pro' = IF site[sid].kind = "pro" THEN NewAdapter(fetched) ELSE pro
    /\ UNCHANGED <<schedVars, cliVars, fetch>>

InNextPro ==
    \E t \in Foreground : run[t].pc = "iterate" /\ site[run[t].source_id].kind = "pro"

NextParse ==
    \/ \E t \in Foreground, sid \in SourceIds, fetched \in RunFetches : RunParse(t, sid, fetched)
    \/ \E t \in Foreground :
          \/ StartLog(t)
          \/ LogUnavailable(t)
          \/ Pull(t)
          \/ SaveStep(t)
          \/ LogSuccess(t)
          \/ Cleanup(t)
    \/ \E fetched \in RunFetches, pass \in RunPasses, outcome \in RunOutcomes :
          InNextPro /\ Attempt(fetched, pass, outcome)
    \/ \E listings \in Pages : InNextPro /\ Parse(listings)

SpecParse == InitParse /\ [][NextParse]_vars

\* The generators of both adapters, each driven by next() until it ends,
\* against any site.  A request returns (requests pass timeouts) and the
\* consumer keeps calling next(), hence the fairness of both.
InitStreams ==
    /\ sources = {[id |-> 1, source_type |-> "example_direct", enabled |-> TRUE],
                  [id |-> 2, source_type |-> "yellowpages_pro", enabled |-> TRUE]}
    /\ leads = {}
    /\ leadSeq = 0
    /\ logs = {}
    /\ logSeq = 0
    /\ run = [t \in Threads |-> IdleFrame]
    /\ started = [t \in Threads |-> 0]
    /\ yielded = 0
    /\ site = [s \in SourceIds |-> AnySite]
    /\ dbFaults = 0
    /\ SchedulerInit
    /\ \E fetched \in RunFetches : pro = NewAdapter(fetched)
    /\ seed = NotSeeding
    /\ fetch = NewDirect

ProSteps ==
    \/ \E fetched \in RunFetches, pass \in RunPasses, outcome \in RunOutcomes :
          Attempt(fetched, pass, outcome)
    \/ \E listings \in Pages : Parse(listings)
    \/ YieldLead

DirectSteps ==
    \/ \E answer \in Answers : Request(answer)
    \/ \E listings \in DirectPages : ParseDirect(listings)
    \/ YieldDirect

NextStreams == ProSteps \/ DirectSteps

SpecStreams ==
    InitStreams /\ [][NextStreams]_vars /\ WF_vars(ProSteps) /\ WF_vars(DirectSteps)

\* The scheduler's loop thread runs the due jobs while the Settings page
\* deletes sources
NextDelete ==
    \/ NextSched
    \/ \E sid \in SourceIds : DeleteSource(sid)

SpecDelete == InitBoth /\ [][NextDelete]_vars

\* Two sources whose sites list the same businesses; source 1 was scraped
\* before.  Runs save leads while leads are scored and sources deleted.
Scores == {0, 75}

LeadIds == 1..(leadSeq + 1)

InitScore ==
    /\ sources = { [id |-> sid, source_type |-> "example_direct", enabled |-> TRUE] :
                   sid \in SourceIds }
    /\ leads = {LeadRow(1, 1, FreshLead(0))}
    /\ leadSeq = 1
    /\ logs = {[StartedLog(1, 1) EXCEPT !.status = "success", !.leads_scraped = 1,
                                        !.completed_at = TRUE]}
    /\ logSeq = 1
    /\ run = [t \in Threads |-> IdleFrame]
    /\ started = [t \in Threads |-> 0]
    /\ yielded = 0
    /\ \E n \in {1, 2} :
          site = [s \in SourceIds |-> [kind |-> "fresh", n |-> n, ending |-> END]]
    /\ dbFaults = 0
    /\ SchedulerInit
    /\ pro = NewAdapter(<<>>)
    /\ seed = NotSeeding
    /\ fetch = NewDirect

NextScore ==
    \/ \E t \in Foreground, sid \in SourceIds : RunLookup(t, sid, <<>>)
    \/ \E t \in Foreground :
          \/ StartLog(t)
          \/ Pull(t)
          \/ SaveStep(t)
          \/ LogSuccess(t)
          \/ Cleanup(t)
    \/ \E lead_id \in LeadIds, score \in Scores : UpdateLeadScore(lead_id, score)
    \/ \E sid \in SourceIds : DeleteSource(sid)

SpecScore == InitScore /\ [][NextScore]_vars

\* start() and stop() are called in any order while the loop threads run
\* the due jobs
\* One source with a daily job; its adapter yields one lead and ends
InitStop ==
    /\ sources = {[id |-> 1, source_type |-> "example_direct", enabled |-> TRUE]}
    /\ leads = {}
    /\ leadSeq = 0
    /\ logs = {}
    /\ logSeq = 0
    /\ run = [t \in Threads |-> IdleFrame]
    /\ started = [t \in Threads |-> 0]
    /\ yielded = 0
    /\ site = [s \in SourceIds |-> [kind |-> "fresh", n |-> 1, ending |-> END]]
    /\ dbFaults = 0
    /\ triggers = {Trigger(1, daily_job_id(1, Nine), 1, <<>>, "day")}
    /\ jobs = Put(<<>>, daily_job_id(1, Nine),
                  [job |-> 1, source_id |-> 1, schedule |-> "Daily at " \o TimeStr(Nine)])
    /\ lastCall = [op |-> "add_daily_job", job_id |-> daily_job_id(1, Nine)]
    /\ jobSeq = 1
    /\ running = FALSE
    /\ loop = LoopOff
    /\ left = LoopOff
    /\ dues = 0
    /\ pro = NewAdapter(<<>>)
    /\ seed = NotSeeding
    /\ fetch = NewDirect

NextStop ==
    \/ Start
    \/ Stop
    \/ LoopExit
    \/ \E tr \in triggers : BecomeDue(tr.h)
    \/ RunPending
    \/ \E tr \in loop.queue : RunJob(tr)
    \/ JobDone
    \/ LeftRunPending
    \/ \E tr \in left.queue : LeftRunJob(tr)
    \/ LeftJobDone
    \/ \E t \in {"sched", "left"} :
          \/ StartLog(t)
          \/ LogUnavailable(t)
          \/ Pull(t)
          \/ SaveStep(t)
          \/ LogSuccess(t)
          \/ Cleanup(t)

SpecStop == InitStop /\ [][NextStop]_vars

\* The seeding command, run again and again on a database that is empty
\* or holds a source a user added under a configured name and enabled;
\* the Settings page enables and disables sources meanwhile
InitSeed ==
    /\ sources \in { {},
                     {[id |-> 1, name |-> "Yelp Business Directory",
                       source_type |-> "yellowpages_pro", enabled |-> TRUE]} }
    /\ leads = {}
    /\ leadSeq = 0
    /\ logs = {}
    /\ logSeq = 0
    /\ run = [t \in Threads |-> IdleFrame]
    /\ started = [t \in Threads |-> 0]
    /\ yielded = 0
    /\ site = [s \in SourceIds |-> AnySite]
    /\ dbFaults = MaxFaults
    /\ SchedulerInit
    /\ pro = NewAdapter(<<>>)
    /\ seed = NotSeeding
    /\ fetch = NewDirect

NextSeed ==
    \/ InitDatabase
    \/ SeedEntry
    \/ \E sid \in SourceIds, enabled \in BOOLEAN : UpdateSource(sid, enabled)

SpecSeed == InitSeed /\ [][NextSeed]_vars

----------------------------------------------------------------------------
(* Properties *)

\* A value that is present: neither None nor the empty string
Present(v) == v \notin {None, ""}

\* A lead (or a row of table leads) with a name and at least one contact
HasNameAndContact(l) ==
    /\ Present(l.business_name)
    /\ Present(l.phone) \/ Present(l.email) \/ Present(l.website)

\* The natural key of a lead or of a row
NaturalKey(l) == <<l.business_name, l.city, l.phone>>

\* The items the loop body of a run worked on: all the generator yielded,
\* but the one at which the loop ended because max_leads was reached
Examined(F) ==
    IF F.capped THEN SubSeq(F.seen, 1, Len(F.seen) - 1) ELSE F.seen

ValidOf(items) ==
    LET Test(l) == HasNameAndContact(l) IN SelectSeq(items, Test)

InvalidOf(items) ==
    LET Test(l) == ~HasNameAndContact(l) IN SelectSeq(items, Test)

\* The entries of a result's error list that report skipped leads
SkippedEntries(errors) ==
    LET Test(e) == e \notin {"Scraping failed: adapter error",
                             "Scraping failed: database error"}
    IN  SelectSeq(errors, Test)

LogRow(id) == {l \in logs : l.id = id}

RunLogStatus(F, status) == \E l \in LogRow(F.log_id) : l.status = status

\* C1: for all leads with identical (business_name, city, phone), absent
\* city or phone included, only the first save succeeds, so no two rows of
\* table leads ever share the same triple.
C1_UniqueTriple ==
    \A r1, r2 \in leads :
        NaturalKey(r1) = NaturalKey(r2) => r1.id = r2.id

\* C2 as claimed: for every run with max_leads = N, N >= 0, the returned
\* result never reports leads_scraped > N.
C2_CapAnyN ==
    \A t \in Threads :
        LET F == run[t] IN
        (Returned(F) /\ F.scraper /\ F.max_leads # <<>>)
            => F.result.leads_scraped <= F.max_leads[1]

\* C2 amended: for every run with max_leads = N, N >= 1, the result never
\* reports leads_scraped > N, while the run lasts and when it has returned
\* (max_leads = 0 is no cap, as None is).
C2_CapPositiveN ==
    \A t \in Threads :
        LET F == run[t] IN
        (F.scraper /\ F.max_leads # <<>> /\ F.max_leads[1] >= 1)
            => F.result.leads_scraped <= F.max_leads[1]

\* A run with max_leads = 1 returned after the generator had yielded a
\* second lead, reporting one lead scraped
C2_Witness ==
    \E t \in Threads :
        /\ Returned(run[t])
        /\ run[t].max_leads = <<1>>
        /\ run[t].capped
        /\ Len(run[t].seen) = 2
        /\ run[t].result.leads_scraped = 1

C4_DisabledRunLogged ==
    \A t \in Threads :
        LET F == run[t] IN
        (Returned(F) /\ "error" \in DOMAIN F.result
                     /\ F.result.error = "Source is disabled")
            => /\ ~F.result.success
               /\ F.pulled = 0
               /\ RunLogStatus(F, "failed")

\* C5: a call for a source id that no row of table sources has returns at
\* once success = false with the not-found reason, creates no log row,
\* instantiates no adapter, and leaves leads, logs and sources unchanged.
C5_SourceNotFound ==
    [][ \A t \in Threads :
          ( /\ started'[t] = started[t] + 1
            /\ ~ \E s \in sources : s.id = run'[t].source_id )
          => /\ run'[t].pc = "returned"
             /\ run'[t].result = [success |-> FALSE, error |-> "Source not found"]
             /\ ~run'[t].scraper
             /\ run'[t].log_id = 0
             /\ UNCHANGED <<sources, leads, leadSeq, logs, logSeq>> ]_vars

\* A call for the unknown source id 2 has returned the not-found result,
\* the tables holding the rows of an earlier run
C5_Witness ==
    \E t \in Threads :
        /\ Returned(run[t])
        /\ run[t].source_id = 2
        /\ run[t].result = [success |-> FALSE, error |-> "Source not found"]
        /\ leads # {}
        /\ logs # {}

\* C6: when the source's type has no registered adapter, or the adapter's
\* constructor raises, the run returns a result with success = false and
\* the scraper-unavailable error, its log row ends failed, and no lead is
\* scraped or persisted.
C6_ScraperUnavailable ==
    \A t \in Threads :
        LET F == run[t] IN
        (F.log_id # 0 /\ (F.source_type \notin scraper_registry \/ ~F.ctor_ok))
            => /\ F.pc \in {"log_unavailable", "returned"}
               /\ ~F.scraper
               /\ F.pulled = 0
               /\ F.inserted = 0
               /\ leads = F.store0
               /\ Returned(F) =>
                    /\ F.result = [success |-> FALSE,
                                   error |-> "Scraper not available"]
                    /\ RunLogStatus(F, "failed")

\* A run of a source with a registered adapter whose constructor raised has
\* returned
C6_Witness ==
    \E t \in Threads :
        /\ Returned(run[t])
        /\ run[t].log_id # 0
        /\ run[t].source_type \in scraper_registry
        /\ ~run[t].ctor_ok
        /\ RunLogStatus(run[t], "failed")

\* C7: for a run that completes cleanly, leads_scraped is the number of
\* valid leads consumed, leads_saved the number of their natural keys that
\* were not stored before (each new key counted once), and duplicates the
\* rest; the stream [A phone 1, A phone 1, B email] into an empty store
\* gives 3 scraped, 2 saved, 1 duplicate.
C7_CleanRunCounts ==
    \A t \in Threads :
        LET F == run[t]
            valid == ValidOf(Examined(F))
            new == {NaturalKey(valid[i]) : i \in 1..Len(valid)}
                       \ {NaturalKey(r) : r \in F.store0}
        IN  (Returned(F) /\ F.scraper /\ F.result.success)
            => /\ F.result.leads_scraped = Len(valid)
               /\ F.result.leads_saved = Cardinality(new)
               /\ F.result.duplicates = Len(valid) - Cardinality(new)
               /\ ( /\ F.store0 = {}
                    /\ F.seen = << Lead("A", None, "1", None, None),
                                   Lead("A", None, "1", None, None),
                                   Lead("B", None, None, "b@x.com", None) >> )
                  => /\ F.result.leads_scraped = 3
                     /\ F.result.leads_saved = 2
                     /\ F.result.duplicates = 1

\* The leads of a run's stream are valid, pairwise distinct and not stored
\* when the run began
AllFresh(F) ==
    /\ \A i \in 1..Len(F.seen) :
          /\ HasNameAndContact(F.seen[i])
          /\ \A r \in F.store0 : NaturalKey(r) # NaturalKey(F.seen[i])
    /\ \A i, j \in 1..Len(F.seen) :
          NaturalKey(F.seen[i]) = NaturalKey(F.seen[j]) => i = j

\* C8: if the adapter raises after yielding k valid, distinct, unseen leads,
\* the run catches the exception and returns success = false with the
\* exception text as last error; the log row is failed; leads_saved is
\* 50 * floor(k / 50), the leads of the completed flushes, which are the
\* rows persisted: the leads still in the buffer are not.
C8_AdapterRaisePartial ==
    \A t \in Threads :
        LET F == run[t]
            k == Len(F.seen)
            flushed == buffer_size * (k \div buffer_size)
        IN  (F.adapter_raised /\ AllFresh(F))
            => /\ F.pc \in {"except", "cleanup", "returned"}
               /\ F.inserted = flushed
               /\ \A i \in 1..k :
                     (\E r \in leads : NaturalKey(r) = NaturalKey(F.seen[i]))
                         <=> i <= flushed
               /\ Returned(F) =>
                    /\ ~F.result.success
                    /\ F.result.leads_saved = flushed
                    /\ F.result.errors # <<>>
                    /\ F.result.errors[Len(F.result.errors)]
                           = "Scraping failed: adapter error"
                    /\ \E l \in LogRow(F.log_id) :
                          /\ l.status = "failed"
                          /\ l.leads_scraped = flushed
                          /\ l.error_message = "Scraping failed: adapter error"

\* The adapter raised after 60 leads: one flush of 50 is persisted and
\* reported, the other 10 leads are not
C8_Witness ==
    \E t \in Threads :
        LET F == run[t] IN
        /\ Returned(F)
        /\ F.adapter_raised
        /\ AllFresh(F)
        /\ Len(F.seen) = 60
        /\ F.result.leads_saved = 50
        /\ Cardinality(leads) = Cardinality(F.store0) + 50

\* C9: every run that instantiated an adapter calls its cleanup exactly once
\* before the call ends, on every exit path; cleanup is the last thing the
\* run does, and a run without an adapter never calls it.
C9_CleanupExactlyOnce ==
    \A t \in Threads :
        LET F == run[t] IN
        /\ F.cleanups <= 1
        /\ (F.scraper /\ Finished(F)) => F.cleanups = 1
        /\ F.cleanups = 1 => (F.scraper /\ Finished(F))

\* A run whose flush failed in the storage has ended with one cleanup
C9_Witness ==
    \E t \in Threads :
        LET F == run[t] IN
        /\ Finished(F)
        /\ F.scraper
        /\ F.db_failed
        /\ F.result.leads_scraped >= 1
        /\ F.result.leads_saved = 0
        /\ F.cleanups = 1

\* C10: every result run returns, the not-found, disabled and unavailable
\* ones included, carries a success flag with leads_scraped, leads_saved,
\* duplicates and the errors list.
C10_ResultShape ==
    \A t \in Threads :
        Returned(run[t]) =>
            {"success", "leads_scraped", "leads_saved", "duplicates", "errors"}
                \subseteq DOMAIN run[t].result

\* C11: run never lets an exception out to its caller: whatever the source
\* id, the adapter and the storage do, the call ends by returning a result.
C11_NeverRaises ==
    \A t \in Threads : run[t].pc # "raised"

\* C12: when a flush (bulk_save_leads) raises during a run, the run is
\* aborted: the loop pulls no further item from the adapter, the result has
\* success = false, and once the run has returned its log row is failed
\* with an error message and the count of the earlier flushes.
C12_FlushFailureAborts ==
    \A t \in Threads :
        LET F == run[t] IN
        F.flush_failed =>
            /\ F.pc \in {"except", "cleanup", "returned", "raised"}
            /\ ~F.result.success
            /\ Returned(F) =>
                 /\ F.result.errors # <<>>
                 /\ F.result.errors[Len(F.result.errors)]
                        = "Scraping failed: database error"
                 /\ \E l \in LogRow(F.log_id) :
                       /\ l.status = "failed"
                       /\ l.completed_at
                       /\ l.error_message = "Scraping failed: database error"
                       /\ l.leads_scraped = F.result.leads_saved

\* A run whose flush raised after the adapter had yielded a valid lead has
\* returned; nothing of it is stored
C12_Witness ==
    \E t \in Threads :
        LET F == run[t] IN
        /\ Returned(F)
        /\ F.flush_failed
        /\ F.result.leads_scraped >= 1
        /\ F.inserted = 0
        /\ RunLogStatus(F, "failed")

\* The statuses a log row ends in
TerminalStatus == {"success", "failed"}

\* C13: a row of scraper_logs only moves started -> success or started ->
\* failed: a row is created started, a row in a terminal status is never
\* changed again, and completed_at is set exactly when the status is
\* terminal.
C13_LogTransitions ==
    /\ [](\A l \in logs :
            /\ l.status \in TerminalStatus \cup {"started"}
            /\ l.completed_at <=> l.status \in TerminalStatus)
    /\ [][ /\ \A l \in logs :
               \E m \in logs' :
                  /\ m.id = l.id
                  /\ l.status \in TerminalStatus => m = l
          /\ \A m \in logs' :
               (~ \E l \in logs : l.id = m.id) => m.status = "started" ]_vars

\* A run whose success update of the log raised has ended: the handler
\* marked the row failed, and the row of an earlier run is as it was
C13_Witness ==
    \E t \in Threads :
        LET F == run[t] IN
        /\ Finished(F)
        /\ F.scraper
        /\ F.result.success
        /\ F.db_failed
        /\ RunLogStatus(F, "failed")
        /\ \E l \in logs : l.id # F.log_id /\ l.status = "success"

\* C14: after delete_source(id) completes no lead, no run log and no
\* scheduled job of that source remains, in the tables or in what get_jobs
\* lists, and the rows and jobs of the other sources are as they were.
C14_DeleteCascades ==
    [][ \A sid \in SourceIds :
          ( /\ \E s \in sources : s.id = sid
            /\ ~ \E s \in sources' : s.id = sid )
          => /\ ~ \E r \in leads' : r.source_id = sid
             /\ ~ \E l \in logs' : l.source_id = sid
             /\ ~ \E k \in DOMAIN get_jobs' : get_jobs'[k] = sid
             /\ ~ \E tr \in triggers' : tr.source_id = sid
             /\ {s \in sources' : s.id # sid} = {s \in sources : s.id # sid}
             /\ {r \in leads' : r.source_id # sid} = {r \in leads : r.source_id # sid}
             /\ {l \in logs' : l.source_id # sid} = {l \in logs : l.source_id # sid}
             /\ \A k \in DOMAIN jobs :
                   jobs[k].source_id # sid => k \in DOMAIN jobs' /\ jobs'[k] = jobs[k] ]_vars

\* The schedule jobs and the bookkeeping entries of a source
TriggersOf(sid) == {tr \in triggers : tr.source_id = sid}
EntriesOf(sid) == {k \in DOMAIN jobs : jobs[k].source_id = sid}

\* C15: remove_job(id) affects only that id: the entries and the schedule
\* jobs of the other ids are unchanged; when id is not registered nothing
\* changes; and removing the only job of a source leaves the source with
\* no entry and no schedule job.
C15_RemoveJobFrame ==
    [][ \A id \in JobIds :
          ( /\ lastCall' = [op |-> "remove_job", job_id |-> id]
            /\ lastCall' # lastCall )
          => /\ DOMAIN jobs' = DOMAIN jobs \ {id}
             /\ \A k \in DOMAIN jobs' : jobs'[k] = jobs[k]
             /\ triggers' \subseteq triggers
             /\ \A tr \in triggers : tr.job_id # id => tr \in triggers'
             /\ id \notin DOMAIN jobs => jobs' = jobs /\ triggers' = triggers
             /\ \A sid \in SourceIds :
                   ( /\ EntriesOf(sid) = {id}
                     /\ Cardinality(TriggersOf(sid)) = 1 )
                   => EntriesOf(sid)' = {} /\ TriggersOf(sid)' = {}
             /\ UNCHANGED <<sources, leads, logs, running>> ]_vars

\* The daily job of source 1 was removed while the interval job of the same
\* source stays registered and scheduled
C15_Witness ==
    /\ lastCall = [op |-> "remove_job", job_id |-> "daily_1_0900"]
    /\ DOMAIN jobs = {"interval_1_6h"}
    /\ Cardinality(triggers) = 1
    /\ \A tr \in triggers : tr.job_id = "interval_1_6h" /\ tr.h = jobs["interval_1_6h"].job

\* C16: after remove_job(id) has returned, id has no bookkeeping entry and
\* no schedule job that would call the engine for id remains, whatever
\* calls of add_*_job and remove_job came before.
C16_RemovedJobHasNoTrigger ==
    lastCall.op = "remove_job"
        => /\ lastCall.job_id \notin DOMAIN jobs
           /\ ~ \E tr \in triggers : tr.job_id = lastCall.job_id

\* C17: a scheduled job whose run raises or returns a failure never ends
\* the loop thread: the wrapper logs the outcome and returns, every
\* schedule job stays scheduled, the other due jobs that were collected
\* stay to be run, and every job that is due while the scheduler is running
\* is invoked in the end.
C17_LoopSurvivesFailures ==
    /\ [](running => loop.pc \in {"wait", "pending"})
    /\ [][ (loop.cur # 0 /\ loop'.cur = 0)
            => /\ loop'.queue = loop.queue
               /\ {tr.h : tr \in triggers'} = {tr.h : tr \in triggers}
               /\ \E e \in loop'.logged :
                     /\ e.job_id = loop.cur_id
                     /\ run["sched"].pc = "raised" => e.text = "crashed"
                     /\ ( /\ run["sched"].pc = "returned"
                          /\ ~run["sched"].result.success ) => e.text = "failed" ]_vars
    /\ \A h \in 1..MaxJobs :
          (running /\ \E tr \in triggers : tr.h = h /\ tr.due) ~> (loop.cur = h)

\* The run of a job crashed and was logged, and the loop thread is now
\* running the other job
C17_Witness ==
    /\ \E e \in loop.logged : e.text = "crashed" /\ e.job_id # loop.cur_id
    /\ loop.cur # 0
    /\ InFlight(run["sched"])

\* C18: at any time at most one run is in flight per source, the runs of
\* the loop thread and of foreground callers counted together.
C18_OneRunPerSource ==
    \A t1, t2 \in Threads :
        ( /\ t1 # t2
          /\ InFlight(run[t1])
          /\ InFlight(run[t2]) )
        => run[t1].source_id # run[t2].source_id

\* C19: a job of source B that becomes due while the loop thread runs a
\* job of another source A is started without waiting for the run of A:
\* it is never still waiting when the run of A has ended.
C19_DueJobsDoNotWait ==
    ~ \E tr \in triggers :
        /\ tr.due
        /\ tr.late # 0
        /\ tr.late = loop.cur
        /\ tr.source_id # run["sched"].source_id
        /\ Finished(run["sched"])

\* The outcomes after which the proxy is marked failed
ProxyFailures == {"403", "exception"}

\* C20: in _make_request_with_rotation every 403 response and every
\* transport failure marks the proxy that was used failed, and the retry
\* that follows uses another proxy; at most 5 requests are made for one
\* url; and when the request returns no response, after 5 failed attempts
\* or because no proxy could be drawn, the generator ends.
C20_ProxyRotationBounded ==
    LET h == pro.hist
        pm == pro.proxy_manager
    IN  /\ Len(h) <= MaxAttempts
        /\ pro.pc = "request" => pro.attempt = Len(h) + 1
        /\ \A i \in 1..Len(h) :
              h[i].outcome \in ProxyFailures
                  => /\ h[i].proxy \in pm.failed_proxies
                     /\ ~InList(h[i].proxy, pm.working_proxies)
                     /\ \A j \in (i + 1)..Len(h) : h[j].proxy # h[i].proxy
        /\ \A i \in 1..Len(h) : h[i].outcome = "200" => i = Len(h)
        /\ pro.response = "None"
              => /\ pro.pc = "ended"
                 /\ \/ Len(h) = MaxAttempts /\ \A i \in 1..Len(h) : h[i].outcome # "200"
                    \/ pro.current_proxy = <<>>

\* On a later page a request was given up after 5 attempts, two of them
\* with a 403 and a transport failure on two proxies, the rest through a
\* third one, and the generator has ended
C20_Witness ==
    /\ pro.pc = "ended"
    /\ pro.response = "None"
    /\ pro.page > 1
    /\ Len(pro.hist) = MaxAttempts
    /\ \E i, j \in 1..Len(pro.hist) :
          /\ pro.hist[i].outcome = "403"
          /\ pro.hist[j].outcome = "exception"
    /\ Cardinality(pro.proxy_manager.failed_proxies) >= 2

\* The adapter's first request found no proxy to use
NoUsableProxy ==
    /\ pro.page = 1
    /\ pro.hist = <<>>
    /\ pro.response = "None"

\* C21: when no usable proxy is found the adapter is constructed all the
\* same, its stream ends at once without a lead, and the run ends without
\* error: success = true with zero leads and a log row in status success.
C21_NoProxyRunSucceeds ==
    \A t \in Foreground :
        LET F == run[t] IN
        (InFlight(F) \/ Finished(F)) /\ NoUsableProxy
            => /\ F.scraper
               /\ pro.pc = "ended"
               /\ pro.current_proxy = <<>>
               /\ F.seen = <<>>
               /\ F.exc = None
               /\ F.pc # "except"
               /\ Finished(F) =>
                    /\ Returned(F)
                    /\ F.result = [NewResult EXCEPT !.success = TRUE]
                    /\ F.inserted = 0
                    /\ leads = F.store0
                    /\ \E l \in LogRow(F.log_id) :
                          /\ l.status = "success"
                          /\ l.leads_scraped = 0

\* A run has returned after the proxy lists had loaded two proxies of which
\* none passed its test
C21_Witness ==
    \E t \in Foreground :
        /\ Returned(run[t])
        /\ run[t].scraper
        /\ NoUsableProxy
        /\ pro.proxy_manager.failed_proxies = {P1, P2}
        /\ run[t].result.success

\* C22: for every registered adapter an element whose business_name cannot
\* be extracted gives no lead (the stream never yields a lead without
\* business_name), while an element lacking any other field still gives its
\* lead, with that field null.
C22_NamelessElementsDiscarded ==
    \A t \in Foreground :
        LET F == run[t] IN
        /\ \A i \in 1..Len(F.seen) : F.seen[i].business_name # None
        /\ Returned(F) /\ F.scraper /\ site[F.source_id].kind = "direct"
            => Len(F.seen) =
                 Cardinality({i \in 1..Len(site[F.source_id].listings) :
                                 site[F.source_id].listings[i].business_name # None})

\* The rows of table sources with the name of a configured entry
RowsNamed(i) == {s \in sources : s.name = PRODUCTION_SOURCES[i].name}

\* C23: seeding is idempotent and survives failures: however often it has
\* run, no configured name is stored twice; an entry whose name exists is
\* skipped and no stored row is changed or removed by the command; when a
\* run has ended every entry was worked on, and each entry whose try block
\* did not fail is stored exactly once, whatever failed before it.
C23_SeedingIdempotent ==
    /\ [](\A i \in 1..Len(PRODUCTION_SOURCES) :
            /\ Cardinality(RowsNamed(i)) <= 1
            /\ seed.pc = "done" /\ i \notin seed.failed
                => Cardinality(RowsNamed(i)) = 1)
    /\ [](seed.pc = "done"
            => seed.loaded + seed.skipped + Cardinality(seed.failed)
                  = Len(PRODUCTION_SOURCES))
    /\ [][ seed.pc = "loop" /\ seed' # seed =>
             /\ sources \subseteq sources'
             /\ Cardinality(sources') =
                  Cardinality(sources) + (seed'.loaded - seed.loaded)
             /\ seed'.skipped > seed.skipped => RowsNamed(seed.i) # {} ]_vars

\* A second run of the command has ended after a run in which the first
\* entry failed: it added that entry and skipped the two others, of which
\* one is the user's source
C23_Witness ==
    /\ seed.pc = "done"
    /\ seed.runs = 2
    /\ dbFaults = 0
    /\ seed.failed = {}
    /\ seed.loaded = 1
    /\ seed.skipped = 2
    /\ \E s \in sources : /\ s.name = "Yelp Business Directory"
                          /\ s.source_type = "yellowpages_pro"
    /\ \E s \in sources : s.name = "Yellow Pages US" /\ s.id = 3

\* C24: the buffer never holds more than 50 leads; it is handed to one bulk
\* save exactly when it reaches 50 (the loop never goes on with a full
\* buffer, and every bulk save but the last of a run gets 50 leads); what
\* remains when the stream ends or max_leads is reached is flushed once;
\* and on clean completion the leads handed to bulk save are the validated
\* leads, each once and in the order the adapter produced them.
C24_BufferFlushedInOrder ==
    \A t \in Foreground :
        LET F == run[t]
            n == Len(F.bulk_sizes)
            valid == ValidOf(Examined(F))
        IN  F.scraper =>
            /\ Len(F.leads_buffer) <= buffer_size
            /\ F.pc = "iterate" => Len(F.leads_buffer) < buffer_size
            /\ \A i \in 1..n :
                  /\ F.bulk_sizes[i] \in 1..buffer_size
                  /\ F.bulk_sizes[i] < buffer_size => i = n /\ F.loop_done
            /\ F.passed \o (IF F.pc = "flush" \/ F.flush_failed
                           THEN <<>> ELSE F.leads_buffer) = valid
            /\ Returned(F) /\ F.result.success
                  => /\ F.passed = valid
                     /\ F.leads_buffer = <<>>
                     /\ n = (Len(valid) + buffer_size - 1) \div buffer_size

\* A run of 60 leads has ended cleanly after a bulk save of 50 leads and
\* one of the 10 that remained
C24_Witness ==
    \E t \in Foreground :
        LET F == run[t] IN
        /\ Returned(F)
        /\ F.result.success
        /\ F.bulk_sizes = <<buffer_size, 10>>
        /\ Len(F.passed) = 60

\* C25: when a run fails part-way (the adapter raises or a storage
\* operation fails), the leads_saved it reports is the number of lead rows
\* the run inserted before the failure, also when a flush failed after
\* some of its leads were written.
C25_PartialCountIsInserted ==
    \A t \in Foreground :
        LET F == run[t] IN
        Returned(F) /\ F.scraper /\ ~F.result.success
            => F.result.leads_saved = F.inserted

\* C26: a bulk-lead flush is atomic: when bulk_save_leads fails part-way
\* none of the flush's leads is stored, and no state that another thread
\* can observe has only some of the flush's leads written.
C26_FlushAtomic ==
    \A t \in Foreground :
        LET F == run[t] IN
        /\ F.flush_failed => F.saved = 0
        /\ F.pc = "flush" => F.saved = 0

\* C27: every stored lead's source_id is the id of a stored source, also
\* when a source is deleted while a run for it is in flight: no lead of a
\* deleted source is in the table once that run has ended.
C27_LeadsHaveSource ==
    \A l \in leads : \E s \in sources : s.id = l.source_id

\* C28: after any sequence of start() and stop() calls, also stop() then
\* start() while a triggered run is still executing, at most one thread is
\* in the scheduler loop, so that no due job is run by two loops at once,
\* and start() on a running scheduler creates no second loop.
C28_OneLoopThread ==
    /\ [](~(loop.pc # "off" /\ left.pc # "off"))
    /\ [](loop.cur # 0 => left.cur # loop.cur)
    /\ [][running /\ running' => (loop.pc = "off" <=> loop'.pc = "off")]_vars

\* C29: every run that created a log row in status started has left that
\* row in status success or failed when the run has ended, on every path
\* (clean completion, adapter exception, storage failure in a flush or in
\* the log update itself): no row of an ended run stays in status started.
C29_LogRowClosed ==
    \A t \in Foreground :
        LET F == run[t] IN
        Finished(F) /\ F.log_id # 0
            => \A l \in LogRow(F.log_id) : l.status \in {"success", "failed"}

\* C30: when the log row of a run is in a terminal status, its
\* leads_scraped field is the leads_saved of the run's result (the leads
\* the run reports as persisted), not the number scraped, on success and
\* on failure alike; the row of a run without adapter has 0.
C30_LogCountsSaved ==
    \A t \in Foreground :
        LET F == run[t] IN
        \A l \in LogRow(F.log_id) :
            l.status \in TerminalStatus
                => l.leads_scraped = IF F.scraper THEN F.result.leads_saved ELSE 0

\* A run has ended after it scraped one lead, which was stored before: its
\* row has the zero of leads_saved, not the one scraped
C30_Witness ==
    \E t \in Foreground :
        LET F == run[t] IN
        /\ Returned(F)
        /\ F.scraper
        /\ F.result.leads_scraped = 1
        /\ F.result.leads_saved = 0
        /\ F.result.duplicates = 1
        /\ \E l \in LogRow(F.log_id) : l.status = "success" /\ l.leads_scraped = 0

\* C31: the stream of every adapter is finite and ends by itself whatever
\* the site does: the direct adapter parses one page at most; the
\* proxy-rotating adapter fetches at most 5 pages and ends at the first
\* page that cannot be fetched or that has no listing.
C31_StreamsEnd ==
    /\ [](/\ fetch.pages <= 1
          /\ pro.page \in 1..LastPage
          /\ pro.response = "None" => pro.pc = "ended"
          /\ pro.found = <<0>> => pro.pc = "ended")
    /\ <>[](fetch.pc = "ended")
    /\ <>[](pro.pc = "ended")

\* Both streams have ended: the direct one after its page, the
\* proxy-rotating one after five pages with listings
C31_Witness ==
    /\ fetch.pc = "ended"
    /\ fetch.pages = 1
    /\ pro.pc = "ended"
    /\ pro.page = LastPage
    /\ pro.response = "200"
    /\ pro.found # <<0>>

\* C32: the job id returned by add_daily_job, add_interval_job and
\* add_weekly_job is the id of the job just created, and two jobs have the
\* same id exactly when they were created with the same policy, source and
\* time parameters, whatever their max_leads and whatever the scheduler
\* held when they were created.
C32_JobIdFromParameters ==
    /\ lastCall.op \in {"add_daily_job", "add_interval_job", "add_weekly_job"} =>
          \E tr \in triggers : /\ tr.h = jobSeq
                               /\ tr.job_id = lastCall.job_id
                               /\ tr.args.op = lastCall.op
    /\ \A a, b \in triggers : (a.args = b.args) <=> (a.job_id = b.job_id)

\* Two live jobs of the same schedule with different limits and one id
C32_Witness ==
    \E a, b \in triggers :
        /\ a.h # b.h
        /\ a.args = b.args
        /\ a.max_leads # b.max_leads
        /\ a.job_id = b.job_id
        /\ lastCall.job_id = a.job_id

\* Two live jobs that differ in the minute of their time only
C32_WitnessDistinct ==
    \E a, b \in triggers :
        /\ a.args.op = b.args.op
        /\ a.args.source_id = b.args.source_id
        /\ a.args.time_str = "09:00"
        /\ b.args.time_str = "09:30"
        /\ a.job_id # b.job_id

\* C33: in the baseline request path a fetch that keeps meeting retryable
\* failures (a connection failure or HTTP 429/500/502/503/504) is attempted
\* at most 3 times in total, and then ends as a failed fetch: no response,
\* the stream ended, no exception.
C33_ThreeAttempts ==
    /\ fetch.attempts <= 3
    /\ fetch.response = "None" => fetch.pc = "ended"

\* C34: a stored lead row keeps every field but score for as long as it is
\* stored: a save (of the same natural key or another, from any source)
\* leaves every stored row as it is, and update_lead_score changes the
\* score of the addressed row and nothing else.
C34_OnlyScoreChanges ==
    /\ [][\A r \in leads : \A q \in leads' :
             q.id = r.id => [q EXCEPT !.score = r.score] = r]_vars
    /\ [][\A t \in Foreground : SaveStep(t) => leads \subseteq leads']_vars
    /\ [][\A lead_id \in LeadIds, score \in Scores :
             UpdateLeadScore(lead_id, score) =>
                 \A r \in leads : r.id # lead_id => r \in leads']_vars

\* The lead source 1 saved was scored, then a run of source 2 met it as a
\* duplicate: the row still names source 1 and has the new score
C34_Witness ==
    \E t \in Foreground :
        LET F == run[t] IN
        /\ Returned(F)
        /\ F.source_id = 2
        /\ F.result.success
        /\ F.result.duplicates >= 1
        /\ F.result.leads_saved >= 1
        /\ [LeadRow(1, 1, FreshLead(0)) EXCEPT !.score = 75] \in leads
        /\ \E r \in leads : r.source_id = 2 /\ r.score = 75

\* C35: after any sequence of add_daily_job, add_interval_job,
\* add_weekly_job and remove_job calls the bookkeeping map and the live
\* schedule jobs correspond one to one: every live schedule job is the job
\* of exactly one entry, and the job of every entry is live.
C35_JobsMatchTriggers ==
    /\ \A tr \in triggers :
          Cardinality({k \in DOMAIN jobs : jobs[k].job = tr.h}) = 1
    /\ \A k \in DOMAIN jobs : \E tr \in triggers : tr.h = jobs[k].job

\* C36: for every run that created a log row and returned, the success flag
\* of the result agrees with the row: success is true exactly when the
\* row's status is success and false exactly when it is failed, also when
\* the final update of the row failed.
C36_FlagAgreesWithLog ==
    \A t \in Foreground :
        LET F == run[t] IN
        Returned(F) /\ F.log_id # 0
            => \A l \in LogRow(F.log_id) :
                  /\ F.result.success <=> l.status = "success"
                  /\ ~F.result.success <=> l.status = "failed"

\* C37: max_leads counts every item the adapter yields, valid or not: in a
\* run with max_leads = N, N >= 1, the engine validates the first
\* min(N, items yielded) items and no other, so leads_scraped plus the
\* number of invalid-lead entries in errors never exceeds N, and it takes
\* at most N + 1 items from the adapter.
C37_CapCountsEveryItem ==
    \A t \in Threads :
        LET F == run[t]
            N == F.max_leads[1]
            validated == F.result.leads_scraped + Len(SkippedEntries(F.result.errors))
        IN  (F.scraper /\ F.max_leads # <<>> /\ F.max_leads[1] >= 1)
            => /\ validated = IF Len(F.seen) < N THEN Len(F.seen) ELSE N
               /\ validated <= N
               /\ Len(F.seen) <= N + 1
               /\ F.capped <=> Len(F.seen) = N + 1

\* A run with max_leads = 2 returned after it took a third item: of the
\* first two one was valid and one was skipped as invalid
C37_Witness ==
    \E t \in Threads :
        LET F == run[t] IN
        /\ Returned(F)
        /\ F.max_leads = <<2>>
        /\ F.capped
        /\ Len(F.seen) = 3
        /\ F.result.leads_scraped = 1
        /\ Len(SkippedEntries(F.result.errors)) = 1

\* The proxies a call tested: the one it returned after a passed test, and
\* those it added to the failed set
TestsMade ==
    Cardinality(pro'.proxy_manager.failed_proxies \ pro.proxy_manager.failed_proxies)
        + (IF pro.proxy_manager.working_proxies = <<>> /\ pro'.current_proxy # <<>>
           THEN 1 ELSE 0)

\* C38: in one ProxyManager, after any sequence of get_working_proxy and
\* mark_proxy_failed calls, no proxy is both in the working list and in the
\* failed set, the working list holds at most one proxy,
\* get_working_proxy returns no proxy of the failed set, and a call of
\* get_working_proxy tests at most 10 candidates.
C38_ProxyPoolConsistent ==
    /\ [](LET pm == pro.proxy_manager IN
          /\ \A i \in 1..Len(pm.working_proxies) :
                pm.working_proxies[i] \notin pm.failed_proxies
          /\ Len(pm.working_proxies) <= 1)
    /\ [][\A fetched \in ProxyFetches, pass \in ProxyPasses :
             GetWorkingProxy(fetched, pass) =>
                /\ pro'.current_proxy # <<>> =>
                      StripScheme(pro'.current_proxy[1].http)
                          \notin pro'.proxy_manager.failed_proxies
                /\ TestsMade <= 10]_vars

\* A call of get_working_proxy has tested ten proxies, none of which
\* passed, and returned None with an eleventh proxy still in its list
C38_Witness ==
    /\ Cardinality(pro.proxy_manager.failed_proxies) = MaxTested
    /\ Len(pro.proxy_manager.proxies) = 1
    /\ pro.proxy_manager.working_proxies = <<>>
    /\ pro.current_proxy = <<>>

\* The working proxy was marked failed, and the next call found another
C38_WitnessRotated ==
    /\ P1 \in pro.proxy_manager.failed_proxies
    /\ pro.proxy_manager.working_proxies = <<Candidate(MaxTested + 1)>>
    /\ pro.current_proxy = <<ProxyDict(Candidate(MaxTested + 1))>>

====
